---- MODULE Spec2Model ----
(***************************************************************************)
(* ADOT-511: the Meshtastic command listener and the outbound message      *)
(* pipeline (src/src/meshtastic_listener.py, src/src/meshtastic_sender.py, *)
(* src/src/adot_client.py).                                                *)
(*                                                                         *)
(* Texts are sequences of one-character strings, so that slicing,          *)
(* stripping and concatenation are computed as Python computes them.       *)
(* One operation runs at a time (the transport serialises its callbacks):  *)
(* `pc` is "idle" between operations, "split" while the loop of            *)
(* _split_message is being stepped and "returned" when a call has returned *)
(* and its results are still at hand; Resume drops them.                   *)
(***************************************************************************)
EXTENDS Integers, Sequences, FiniteSets, TLC

VARIABLES
    pc,          \* "idle", "split" (inside the while loop of _split_message), "returned"
    op,          \* the operation under way or just returned: "none", "split", "send", "receive"
    channel_index,   \* listener and sender: the configured channel
    max_results,     \* listener: max_results
    running,         \* listener: self.running
    interface,       \* listener: self.interface, "none" for None
    senderInterface, \* sender: self.interface, "none" for None
    myInfo,          \* interface.myInfo: << >> for None, <<my_node_num>> otherwise
    subscribed,      \* the callback is subscribed to "meshtastic.receive"
    startPc,         \* start(): "new" (not called), "loop" (in the wait loop), "done"
                     \* (returned), "raised" (left by an exception)
    opened,          \* the transport connections opened so far
    closeCalls,      \* how often close() was called on each connection
    packet,          \* the packet of the callback that ran
    remote,          \* the state of the remote services during that callback
    cb,              \* what that callback did
    outbound,        \* the messages it handed to send_message, in order
    transmissions,   \* the calls of interface.sendText of the operation, in order
    sendArg,         \* send_message called directly: its arguments
    sendResult,      \* send_message called directly: "True", "False" ("none": no call)
    message,     \* _split_message: the argument `message`
    max_length,  \* _split_message: the argument `max_length`
    remaining,   \* _split_message: local `remaining`
    messages,    \* _split_message: local `messages` (the return value once returned)
    part_num,    \* _split_message: local `part_num`
    returned,    \* _split_message: TRUE once the call has returned `messages`
    call,        \* a function applied on its own: [fn, ...its arguments] ([fn |-> "none"]: none)
    result       \* the value that application returned

vars == <<pc, op, channel_index, max_results, running, interface, senderInterface, myInfo,
          subscribed, startPc, opened, closeCalls, packet, remote, cb, outbound, transmissions, sendArg, sendResult,
          message, max_length, remaining, messages, part_num, returned, call, result>>

(***************************************************************************)
(* Bounds of the model.                                                    *)
(***************************************************************************)
\* longest text handed to _split_message when it is explored exhaustively
MaxTextLen == 6
\* largest max_length handed to _split_message when it is explored exhaustively
MaxL == 3

\* the characters the exhaustive texts are made of: an ordinary character,
\* whitespace, and a break character that is not whitespace
Alphabet == {"a", " ", "-"}

(***************************************************************************)
(* Python string helpers.                                                  *)
(***************************************************************************)
\* the characters str.strip/lstrip/rstrip remove when called without argument
Whitespace == {" ", "\t", "\n", "\r"}

\* s[:n] for 0 <= n
Take(s, n) == SubSeq(s, 1, IF n < Len(s) THEN n ELSE Len(s))

\* s[n:] for 0 <= n
Drop(s, n) == SubSeq(s, n + 1, Len(s))

RECURSIVE RStrip(_)
\* str.rstrip()
RStrip(s) ==
    IF s = << >> THEN << >>
    ELSE IF s[Len(s)] \in Whitespace THEN RStrip(SubSeq(s, 1, Len(s) - 1))
    ELSE s

RECURSIVE LStrip(_)
\* str.lstrip()
LStrip(s) ==
    IF s = << >> THEN << >>
    ELSE IF Head(s) \in Whitespace THEN LStrip(Tail(s))
    ELSE s

\* all texts over Alphabet of length 0..n
TextsUpTo(n) == UNION {[1..k -> Alphabet] : k \in 0..n}

(***************************************************************************)
(* More Python string helpers.                                             *)
(***************************************************************************)
\* str.strip()
Strip(s) == LStrip(RStrip(s))

UpperLetters == <<"A", "B", "C", "D", "E", "F", "G", "H", "I", "J", "K", "L", "M",
                  "N", "O", "P", "Q", "R", "S", "T", "U", "V", "W", "X", "Y", "Z">>
LowerLetters == <<"a", "b", "c", "d", "e", "f", "g", "h", "i", "j", "k", "l", "m",
                  "n", "o", "p", "q", "r", "s", "t", "u", "v", "w", "x", "y", "z">>
Digits == <<"0", "1", "2", "3", "4", "5", "6", "7", "8", "9">>

\* the set of the elements of a sequence
Range(s) == {s[i] : i \in 1..Len(s)}

\* str.lower() of one character
LowerChar(c) ==
    IF c \in Range(UpperLetters)
    THEN LowerLetters[CHOOSE i \in 1..26 : UpperLetters[i] = c]
    ELSE c

\* str.upper() of one character
UpperChar(c) ==
    IF c \in Range(LowerLetters)
    THEN UpperLetters[CHOOSE i \in 1..26 : LowerLetters[i] = c]
    ELSE c

\* str.lower()
Lower(s) == [i \in 1..Len(s) |-> LowerChar(s[i])]

\* str.upper()
Upper(s) == [i \in 1..Len(s) |-> UpperChar(s[i])]

\* the characters the regular expressions' \w and \b treat as word characters
WordChars == Range(UpperLetters) \cup Range(LowerLetters) \cup Range(Digits) \cup {"_"}

RECURSIVE IntToStr(_)
\* str(n) of an integer
IntToStr(n) ==
    IF n < 0 THEN <<"-">> \o IntToStr(0 - n)
    ELSE IF n < 10 THEN <<Digits[n + 1]>>
    ELSE IntToStr(n \div 10) \o <<Digits[(n % 10) + 1]>>

\* `needle in haystack` for strings
Contains(haystack, needle) ==
    \E i \in 0..(Len(haystack) - Len(needle)) :
        SubSeq(haystack, i + 1, i + Len(needle)) = needle

(***************************************************************************)
(* Literal texts of the source.                                            *)
(***************************************************************************)
KW_accidents == <<"a", "c", "c", "i", "d", "e", "n", "t", "s">>
KW_events == <<"e", "v", "e", "n", "t", "s">>
KW_alerts == <<"a", "l", "e", "r", "t", "s">>
KW_weather == <<"w", "e", "a", "t", "h", "e", "r">>
T_accident == <<"a", "c", "c", "i", "d", "e", "n", "t">>
T_NoAccidentsFor == <<"N", "o", " ", "a", "c", "c", "i", "d", "e", "n", "t",
    "s", " ", "f", "o", "u", "n", "d", " ", "f", "o", "r", " ", "'">>
T_NoEventsFor == <<"N", "o", " ", "e", "v", "e", "n", "t", "s", " ", "f",
    "o", "u", "n", "d", " ", "f", "o", "r", " ", "'">>
T_Quote == <<"'">>
T_NoAlerts == <<"N", "o", " ", "a", "l", "e", "r", "t", "s", " ", "f", "o",
    "u", "n", "d">>
T_Found == <<"F", "o", "u", "n", "d", " ">>
T_AlertsShowing == <<" ", "a", "l", "e", "r", "t", "s", " ", "(", "s", "h",
    "o", "w", "i", "n", "g", " ">>
T_CloseParen == <<")">>
T_OpenParen == <<"(">>
T_AlertS == <<" ", "a", "l", "e", "r", "t", "(", "s", ")">>
T_WeatherNotImpl == <<"W", "e", "a", "t", "h", "e", "r", " ", "c", "o", "m",
    "m", "a", "n", "d", " ", "n", "o", "t", " ", "y", "e", "t", " ", "i",
    "m", "p", "l", "e", "m", "e", "n", "t", "e", "d">>
T_ErrorProcessing == <<"E", "r", "r", "o", "r", " ", "p", "r", "o", "c", "e",
    "s", "s", "i", "n", "g", " ">>
T_Request == <<" ", "r", "e", "q", "u", "e", "s", "t", ":", " ">>
T_TypeErrorEvents == <<"A", "D", "O", "T", "C", "l", "i", "e", "n", "t", ".",
    "g", "e", "t", "_", "e", "v", "e", "n", "t", "s", "(", ")", " ", "g",
    "o", "t", " ", "a", "n", " ", "u", "n", "e", "x", "p", "e", "c", "t",
    "e", "d", " ", "k", "e", "y", "w", "o", "r", "d", " ", "a", "r", "g",
    "u", "m", "e", "n", "t", " ", "'", "l", "o", "c", "a", "t", "i", "o",
    "n", "'">>
T_TypeErrorAccidents == <<"A", "D", "O", "T", "C", "l", "i", "e", "n", "t",
    ".", "g", "e", "t", "_", "a", "c", "c", "i", "d", "e", "n", "t", "s",
    "(", ")", " ", "g", "o", "t", " ", "a", "n", " ", "u", "n", "e", "x",
    "p", "e", "c", "t", "e", "d", " ", "k", "e", "y", "w", "o", "r", "d",
    " ", "a", "r", "g", "u", "m", "e", "n", "t", " ", "'", "l", "o", "c",
    "a", "t", "i", "o", "n", "'">>
T_AlertOpen == <<"{", "'", "I", "d", "'", ":", " ">>
T_AlertClose == <<"}">>
T_ColonSpace == <<":", " ">>
T_At == <<"@", " ">>
T_Space == <<" ">>
T_ROADWORK == <<"r", "o", "a", "d", "W", "o", "r", "k">>
T_ACCIDENT_TYPE == <<"a", "c", "c", "i", "d", "e", "n", "t", "s", "A", "n",
    "d", "I", "n", "c", "i", "d", "e", "n", "t", "s">>
T_I10 == <<"I", "-", "1", "0">>
T_East == <<"E", "a", "s", "t">>

(***************************************************************************)
(* Command texts delivered to the listener.                                *)
(***************************************************************************)
T_events_phoenix == <<"e", "v", "e", "n", "t", "s", " ", "p", "h", "o", "e",
    "n", "i", "x">>
T_accidents_101 == <<"a", "c", "c", "i", "d", "e", "n", "t", "s", " ", "1",
    "0", "1">>
T_alerts_az == <<"a", "l", "e", "r", "t", "s", " ", "a", "z">>
T_weather_x == <<"w", "e", "a", "t", "h", "e", "r", " ", "x">>
T_hello_there == <<"h", "e", "l", "l", "o", " ", "t", "h", "e", "r", "e">>
T_EVENTS_I10 == <<" ", "E", "V", "E", "N", "T", "S", " ", " ", "I", "1", "0",
    " ">>
T_NoEventsForPhoenix == <<"N", "o", " ", "e", "v", "e", "n", "t", "s", " ",
    "f", "o", "u", "n", "d", " ", "f", "o", "r", " ", "'", "p", "h", "o",
    "e", "n", "i", "x", "'">>
T_phoenix == <<"p", "h", "o", "e", "n", "i", "x">>
\* "events x" written with a long s for the s
T_eventLongS_x == <<"e", "v", "e", "n", "t", "U+017F", " ", "x">>

(***************************************************************************)
(* MeshtasticSender._split_message                                         *)
(***************************************************************************)
\* the list of break characters of the search loop
BreakChars == {" ", ",", ")", "]", "@", "-"}

\* the continuation indicator put in front of every part but the first
Marker == <<".", ".", ".">>

\* The positions the for loop visits, as 1-based positions of `rem`:
\* range(max_length - 1, max_length // 2, -1) visits the 0-based indices
\* max_length-1 down to max_length//2 + 1, and break_point = i + 1.
SearchPositions(L) == {p \in 1..L : p >= (L \div 2) + 2}

\* BreakPoint for a loop that runs upward and stops at the first break
\* character: range(max_length // 2 + 1, max_length)
BreakPoint_LeftMost(rem, L) ==
    LET hits == {p \in SearchPositions(L) : rem[p] \in BreakChars}
    IN  IF hits = {} THEN L
        ELSE CHOOSE p \in hits : \A q \in hits : p <= q

\* break_point after the for loop: one past the right-most break character
\* among the visited positions, max_length when there is none
BreakPoint(rem, L) ==
    LET hits == {p \in SearchPositions(L) : rem[p] \in BreakChars}
    IN  IF hits = {} THEN L
        ELSE CHOOSE p \in hits : \A q \in hits : q <= p

\* the part appended by one iteration that does not return
Part(rem, L, pn) ==
    LET part == RStrip(Take(rem, BreakPoint(rem, L)))
    IN  IF pn > 1 THEN Marker \o part ELSE part

\* Rest cut one character too far: remaining[break_point + 1:].lstrip()
Rest_SkipsOne(rem, L) == LStrip(Drop(rem, BreakPoint(rem, L) + 1))

\* Rest with the slice forgotten: remaining = remaining.lstrip()
Rest_NotAdvanced(rem, L) == LStrip(rem)

\* `remaining` after one iteration that does not return
Rest(rem, L) == LStrip(Drop(rem, BreakPoint(rem, L)))

\* SingleFragment with the message trimmed like the parts of a long one
SingleFragment_Trimmed(m) == <<Strip(m)>>

\* the value returned by the early return of a message that fits
SingleFragment(m) == <<m>>

\* the locals after one evaluation of the loop condition and, when it is
\* true, of the loop body; st = [remaining, messages, part_num, returned]
SplitStep(st, L) ==
    IF st.remaining = << >>
    THEN \* `while remaining` is false: return messages
         [st EXCEPT !.returned = TRUE]
    ELSE IF Len(st.remaining) <= L
    THEN \* last part: append and break
         [st EXCEPT !.messages = Append(st.messages, st.remaining),
                    !.returned = TRUE]
    ELSE [st EXCEPT !.messages = Append(st.messages, Part(st.remaining, L, st.part_num)),
                    !.remaining = Rest(st.remaining, L),
                    !.part_num = st.part_num + 1]

\* the locals when the loop is reached
SplitEnter(m) ==
    [remaining |-> m, messages |-> << >>, part_num |-> 1, returned |-> FALSE]

RECURSIVE SplitRun(_, _)
\* the loop run to its return
SplitRun(st, L) == IF st.returned THEN st.messages ELSE SplitRun(SplitStep(st, L), L)

\* _split_message(message, max_length) as a function of its arguments
SplitMessage(m, L) ==
    IF Len(m) <= L THEN SingleFragment(m) ELSE SplitRun(SplitEnter(m), L)

(***************************************************************************)
(* MeshtasticSender.send_message                                           *)
(***************************************************************************)
MAX_MESSAGE_LENGTH == 200

\* Attempt with time.sleep(2.0) in a finally clause: the wait follows every
\* attempt
Attempt_AlwaysSleeps(text, channel, n, fails) ==
    [text |-> text, channel |-> channel, ok |-> n \notin fails, slept |-> TRUE]

\* One call of interface.sendText(text, channelIndex=channel): attempt number
\* n of the operation fails (raises) when n is in `fails`; time.sleep(2.0)
\* follows a successful send only.
Attempt(text, channel, n, fails) ==
    [text |-> text, channel |-> channel, ok |-> n \notin fails, slept |-> n \notin fails]

\* SendMessage with the parts sent last to first
SendMessage_Reversed(msg, channelArg, iface, defaultChannel, base, fails) ==
    LET channel == IF channelArg # << >> THEN channelArg[1] ELSE defaultChannel
        parts == SplitMessage(msg, MAX_MESSAGE_LENGTH)
        n == Len(parts)
    IN  IF Len(msg) > MAX_MESSAGE_LENGTH
        THEN [tx |-> IF iface = "none" THEN << >>
                     ELSE [i \in 1..n |-> Attempt(parts[n + 1 - i], channel, base + i, fails)],
              result |-> TRUE]
        ELSE IF iface = "none"
        THEN [tx |-> << >>, result |-> TRUE]
        ELSE [tx |-> <<Attempt(msg, channel, base + 1, fails)>>,
              result |-> (base + 1) \notin fails]

\* SendMessage without the try block around each part: the first failure
\* ends the loop and the outer except clause returns False
SendMessage_AbortOnFailure(msg, channelArg, iface, defaultChannel, base, fails) ==
    LET channel == IF channelArg # << >> THEN channelArg[1] ELSE defaultChannel
        parts == SplitMessage(msg, MAX_MESSAGE_LENGTH)
        bad == {i \in 1..Len(parts) : (base + i) \in fails}
        last == IF bad = {} THEN Len(parts) ELSE CHOOSE i \in bad : \A j \in bad : i <= j
    IN  IF Len(msg) > MAX_MESSAGE_LENGTH
        THEN [tx |-> IF iface = "none" THEN << >>
                     ELSE [i \in 1..last |-> Attempt(parts[i], channel, base + i, fails)],
              result |-> (iface = "none" \/ bad = {})]
        ELSE IF iface = "none"
        THEN [tx |-> << >>, result |-> TRUE]
        ELSE [tx |-> <<Attempt(msg, channel, base + 1, fails)>>,
              result |-> (base + 1) \notin fails]

\* SendMessage with the channel chosen by `channel_index or self.channel_index`:
\* the caller's channel 0 counts as none given
SendMessage_FalsyChannel(msg, channelArg, iface, defaultChannel, base, fails) ==
    LET channel == IF channelArg # << >> /\ channelArg[1] # 0 THEN channelArg[1]
                   ELSE defaultChannel
    IN  IF Len(msg) > MAX_MESSAGE_LENGTH
        THEN LET parts == SplitMessage(msg, MAX_MESSAGE_LENGTH)
             IN  [tx |-> IF iface = "none" THEN << >>
                         ELSE [i \in 1..Len(parts) |->
                                  Attempt(parts[i], channel, base + i, fails)],
                  result |-> TRUE]
        ELSE IF iface = "none"
        THEN [tx |-> << >>, result |-> TRUE]
        ELSE [tx |-> <<Attempt(msg, channel, base + 1, fails)>>,
              result |-> (base + 1) \notin fails]

\* send_message(message, channel_index): the transmission attempts it makes
\* and the value it returns.  channelArg is << >> for None, <<c>> otherwise;
\* iface is the sender's interface, "none" for None; `base` attempts were
\* made before this call in the same operation.
SendMessage(msg, channelArg, iface, defaultChannel, base, fails) ==
    LET channel == IF channelArg # << >> THEN channelArg[1] ELSE defaultChannel
    IN  IF Len(msg) > MAX_MESSAGE_LENGTH
        THEN LET parts == SplitMessage(msg, MAX_MESSAGE_LENGTH)
             IN  [tx |-> IF iface = "none" THEN << >>
                         ELSE [i \in 1..Len(parts) |->
                                  Attempt(parts[i], channel, base + i, fails)],
                  result |-> TRUE]
        ELSE IF iface = "none"
        THEN [tx |-> << >>, result |-> TRUE]
        ELSE [tx |-> <<Attempt(msg, channel, base + 1, fails)>>,
              result |-> (base + 1) \notin fails]

(***************************************************************************)
(* ADOTClient                                                              *)
(*                                                                         *)
(* env is the state of the remote services at the time of the call:        *)
(* eventsStatus/alertsStatus are "ok" or the failure of the HTTP request,  *)
(* events/alerts the decoded JSON lists, now the current time in seconds.  *)
(***************************************************************************)
\* the keyword parameters the client's fetch methods declare besides self
GetEventsParams == {}
GetAccidentsParams == {}
GetAlertsParams == {}

\* Python's binding of a call's keyword arguments: a keyword the function
\* does not declare raises TypeError before the body runs
Call(declared, passed, excText, value) ==
    IF passed \subseteq declared
    THEN [raised |-> FALSE, exc |-> << >>, value |-> value]
    ELSE [raised |-> TRUE, exc |-> excText, value |-> << >>]

\* ADOTClient.get_events(): the decoded list, [] on any request failure
get_events(env) == IF env.eventsStatus = "ok" THEN env.events ELSE << >>

\* ADOTClient.get_alerts(): the decoded list, [] on any request failure or
\* when the response is not a list
get_alerts(env) == IF env.alertsStatus = "ok" THEN env.alerts ELSE << >>

\* `'accident' in event.get('EventType', '').lower()`
IsAccident(event) == Contains(Lower(event.EventType), T_accident)

RECURSIVE Accidents(_)
\* the events whose type names an accident, in source order
Accidents(events) ==
    IF events = << >> THEN << >>
    ELSE IF IsAccident(Head(events)) THEN <<Head(events)>> \o Accidents(Tail(events))
    ELSE Accidents(Tail(events))

RECURSIVE NonAccidents(_)
\* the events whose type does not name an accident, in source order
NonAccidents(events) ==
    IF events = << >> THEN << >>
    ELSE IF IsAccident(Head(events)) THEN NonAccidents(Tail(events))
    ELSE <<Head(events)>> \o NonAccidents(Tail(events))

\* ADOTClient.get_accidents(): the accident events of get_events()
get_accidents(env) == Accidents(get_events(env))

\* the null of a converted time stamp, as the formatters read it
NoTime == [kind |-> "empty", secs |-> 0]

\* _convert_unix_to_arizona_time(unix_timestamp), with the time stamp of the
\* service either absent (kind "none"), a number of seconds that
\* datetime.fromtimestamp accepts (kind "secs"), or a value on which
\* fromtimestamp raises the exception its kind names.  The except clause
\* names ValueError and OSError; every other exception leaves the function.
_convert_unix_to_arizona_time(unix_timestamp) ==
    IF unix_timestamp.kind = "none" THEN [raised |-> FALSE, value |-> NoTime]
    ELSE IF unix_timestamp.kind = "secs"
    THEN [raised |-> FALSE, value |-> [kind |-> "time", secs |-> unix_timestamp.secs]]
    ELSE IF unix_timestamp.kind \in {"ValueError", "OSError"}
    THEN [raised |-> FALSE, value |-> NoTime]
    ELSE [raised |-> TRUE, value |-> NoTime]

RECURSIVE ConvertAccidents(_)
\* the loop of get_accidents over the events: the accident records with
\* their time stamps converted, or the exception a conversion raised
ConvertAccidents(events) ==
    IF events = << >> THEN [raised |-> FALSE, value |-> << >>]
    ELSE LET event == Head(events)
             reported == _convert_unix_to_arizona_time(event.Reported)
             updated == _convert_unix_to_arizona_time(event.LastUpdated)
             later == ConvertAccidents(Tail(events))
         IN  IF ~IsAccident(event) THEN later
             ELSE IF reported.raised \/ updated.raised \/ later.raised
             THEN [raised |-> TRUE, value |-> << >>]
             ELSE [raised |-> FALSE,
                   value |-> <<[event EXCEPT !.Reported = reported.value,
                                             !.LastUpdated = updated.value]>> \o later.value]

\* the body of get_accidents on the events get_events returned: the
\* records of the loop, and [] from `except Exception`
GetAccidentsOf(events) ==
    LET converted == ConvertAccidents(events)
    IN  IF converted.raised THEN << >> ELSE converted.value

(***************************************************************************)
(* MeshtasticListener: command grammar                                     *)
(***************************************************************************)
Keywords == {KW_accidents, KW_events, KW_alerts, KW_weather}

\* the character U+017F, LATIN SMALL LETTER LONG S, as one character of a text
LongS == "U+017F"

\* the character a pattern letter is compared with under re.IGNORECASE
FoldChar(c) == IF c = LongS THEN "s" ELSE LowerChar(c)

\* the result of a failed COMMAND_PATTERN.match
NoMatch == [matched |-> FALSE, command_type |-> << >>, location |-> << >>]

\* ParseCommand with the pattern compiled without IGNORECASE
ParseCommand_CaseSensitive(msg) ==
    LET s == Strip(msg)
        kws == {k \in Keywords : Len(s) > Len(k) /\ Take(s, Len(k)) = k}
    IN  IF kws = {} THEN NoMatch
        ELSE LET k == CHOOSE x \in kws : TRUE
                 after == Drop(s, Len(k))
                 arg == LStrip(after)
             IN  IF Len(arg) = Len(after) \/ arg = << >> \/ "\n" \in Range(arg)
                 THEN NoMatch
                 ELSE [matched |-> TRUE, command_type |-> k, location |-> Strip(arg)]

\* COMMAND_PATTERN.match(message.strip()), then group(1).lower() and
\* group(2).strip():  ^\s*(accidents|events|alerts|weather)\s+(.+?)\s*$
\* with IGNORECASE.  `.` does not match a newline, so an argument with a
\* newline inside does not match.
\* group(1) is matched under IGNORECASE, which takes the long s for an s,
\* and is then lower-cased by str.lower(), which leaves the long s as it is.
ParseCommand(msg) ==
    LET s == Strip(msg)
        kws == {k \in Keywords : Len(s) > Len(k) /\ [i \in 1..Len(k) |-> FoldChar(s[i])] = k}
    IN  IF kws = {} THEN NoMatch
        ELSE LET k == CHOOSE x \in kws : TRUE
                 after == Drop(s, Len(k))
                 arg == LStrip(after)
             IN  IF Len(arg) = Len(after) \/ arg = << >> \/ "\n" \in Range(arg)
                 THEN NoMatch
                 ELSE [matched |-> TRUE, command_type |-> Lower(Take(s, Len(k))),
                       location |-> Strip(arg)]

\* the index of the last digit of the maximal run of digits of s that starts
\* at position d; d - 1 when s has no digit at d
RECURSIVE DigitsEnd(_, _)
DigitsEnd(s, d) ==
    IF d <= Len(s) /\ s[d] \in Range(Digits) THEN DigitsEnd(s, d + 1) ELSE d - 1

\* where the digits of a match of \b([Ii])(-?)(\d+)\b at position i start
DigitsStart(s, i) == IF i + 1 <= Len(s) /\ s[i + 1] = "-" THEN i + 2 ELSE i + 1

\* InterstateEnd for the pattern without its two \b: ([Ii])(-?)(\d+)
InterstateEnd_NoBoundary(s, i) ==
    LET d == DigitsStart(s, i)
        e == DigitsEnd(s, d)
    IN  IF s[i] \in {"I", "i"} /\ e >= d THEN e ELSE 0

\* the last position of the match of \b([Ii])(-?)(\d+)\b that starts at
\* position i of s, 0 when there is none
InterstateEnd(s, i) ==
    LET d == DigitsStart(s, i)
        e == DigitsEnd(s, d)
    IN  IF /\ s[i] \in {"I", "i"}
           /\ (i = 1 \/ s[i - 1] \notin WordChars)
           /\ e >= d
           /\ (e = Len(s) \/ s[e + 1] \notin WordChars)
        THEN e ELSE 0

RECURSIVE NormalizeFrom(_, _)
\* re.sub scanning s from position i: every match replaced by I-<digits>
NormalizeFrom(s, i) ==
    IF i > Len(s) THEN << >>
    ELSE LET e == InterstateEnd(s, i)
         IN  IF e > 0
             THEN <<"I", "-">> \o SubSeq(s, DigitsStart(s, i), e) \o NormalizeFrom(s, e + 1)
             ELSE <<s[i]>> \o NormalizeFrom(s, i + 1)

RECURSIVE NormalizeFrom_KeepsDash(_, _)
\* re.sub with the replacement f"I-{match.group(2)}{match.group(3)}"
NormalizeFrom_KeepsDash(s, i) ==
    IF i > Len(s) THEN << >>
    ELSE LET e == InterstateEnd(s, i)
         IN  IF e > 0
             THEN <<"I", "-">> \o SubSeq(s, i + 1, e) \o NormalizeFrom_KeepsDash(s, e + 1)
             ELSE <<s[i]>> \o NormalizeFrom_KeepsDash(s, i + 1)

\* _normalize_interstate with a dash put in whether or not one is there
_normalize_interstate_KeepsDash(location) == NormalizeFrom_KeepsDash(location, 1)

\* _normalize_interstate(location)
_normalize_interstate(location) == NormalizeFrom(location, 1)

(***************************************************************************)
(* MeshtasticListener: handlers                                            *)
(*                                                                         *)
(* A handler yields [out, raised, exc]: the messages it handed to          *)
(* send_message, in order (send_message never raises), and the exception   *)
(* that ended it, if any.  Each message is [kind, text]; kind is the       *)
(* place of the handler that sent it.                                      *)
(***************************************************************************)
Msg(kind, text) == [kind |-> kind, text |-> text]

Returned(out) == [out |-> out, raised |-> FALSE, exc |-> << >>]

Raised(out, exc) == [out |-> out, raised |-> TRUE, exc |-> exc]

\* PyPrefix with the limit forgotten: every result is sent
PyPrefix_NoLimit(seq, n) == seq

\* seq[:n]
PyPrefix(seq, n) == IF n >= 0 THEN Take(seq, n) ELSE Take(seq, IF Len(seq) + n > 0 THEN Len(seq) + n ELSE 0)

\* the elapsed annotation of _format_accident_message: "" when LastUpdated
\* is empty or does not parse
ElapsedStr_FailureShown(last_updated, now) ==
    IF last_updated.kind \in {"unparsable", "not_str"} THEN <<"?">>
    ELSE IF last_updated.kind # "time" THEN << >>
    ELSE LET elapsed == now - last_updated.secs
             hours == elapsed \div 3600
             minutes == (elapsed % 3600) \div 60
         IN  IF hours > 0
             THEN IntToStr(hours) \o <<"h">> \o IntToStr(minutes) \o <<"m", " ", "a", "g", "o">>
             ELSE IntToStr(minutes) \o <<"m", " ", "a", "g", "o">>

ElapsedStr(last_updated, now) ==
    IF last_updated.kind # "time" THEN << >>
    ELSE LET elapsed == now - last_updated.secs
             hours == elapsed \div 3600
             minutes == (elapsed % 3600) \div 60
         IN  IF hours > 0
             THEN IntToStr(hours) \o <<"h">> \o IntToStr(minutes) \o <<"m", " ", "a", "g", "o">>
             ELSE IntToStr(minutes) \o <<"m", " ", "a", "g", "o">>

RECURSIVE JoinSpace(_)
\* " ".join(parts)
JoinSpace(parts) ==
    IF parts = << >> THEN << >>
    ELSE IF Len(parts) = 1 THEN parts[1]
    ELSE parts[1] \o T_Space \o JoinSpace(Tail(parts))

\* _format_accident_message without the test `lanes != "No Data"`
_format_accident_message_ShowsNoData(accident, now) ==
    LET elapsed_str == ElapsedStr(accident.LastUpdated, now)
    IN  JoinSpace(
            <<<<"A", "C", "C", "I", "D", "E", "N", "T", ":", " ">> \o accident.RoadwayName>>
            \o (IF accident.DirectionOfTravel # << >>
                THEN <<T_OpenParen \o accident.DirectionOfTravel \o T_CloseParen>> ELSE << >>)
            \o (IF accident.LanesAffected # << >>
                THEN <<<<"L", "a", "n", "e", "s", ":", " ">> \o accident.LanesAffected>> ELSE << >>)
            \o (IF accident.Location # << >> THEN <<T_At \o accident.Location>> ELSE << >>)
            \o (IF elapsed_str # << >> THEN <<<<"[">> \o elapsed_str \o <<"]">>>> ELSE << >>))

\* _format_accident_message(accident)
_format_accident_message(accident, now) ==
    LET elapsed_str == ElapsedStr(accident.LastUpdated, now)
    IN  JoinSpace(
            <<<<"A", "C", "C", "I", "D", "E", "N", "T", ":", " ">> \o accident.RoadwayName>>
            \o (IF accident.DirectionOfTravel # << >>
                THEN <<T_OpenParen \o accident.DirectionOfTravel \o T_CloseParen>> ELSE << >>)
            \o (IF accident.LanesAffected # << >>
                   /\ accident.LanesAffected # <<"N", "o", " ", "D", "a", "t", "a">>
                THEN <<<<"L", "a", "n", "e", "s", ":", " ">> \o accident.LanesAffected>> ELSE << >>)
            \o (IF accident.Location # << >> THEN <<T_At \o accident.Location>> ELSE << >>)
            \o (IF elapsed_str # << >> THEN <<<<"[">> \o elapsed_str \o <<"]">>>> ELSE << >>))

\* _format_event_message(event)
_format_event_message(event) ==
    JoinSpace(
        <<Upper(event.EventType) \o T_ColonSpace \o event.RoadwayName>>
        \o (IF event.DirectionOfTravel # << >>
            THEN <<T_OpenParen \o event.DirectionOfTravel \o T_CloseParen>> ELSE << >>)
        \o (IF event.Location # << >> THEN <<T_At \o event.Location>> ELSE << >>))

\* _handle_accidents_command(location)
_handle_accidents_command(location, env, maxres) ==
    LET fetch == Call(GetAccidentsParams, {"location"}, T_TypeErrorAccidents, get_accidents(env))
        accidents_to_send == PyPrefix(fetch.value, maxres)
    IN  IF fetch.raised THEN Raised(<< >>, fetch.exc)
        ELSE IF fetch.value = << >>
        THEN Returned(<<Msg("none_found", T_NoAccidentsFor \o location \o T_Quote)>>)
        ELSE Returned([i \in 1..Len(accidents_to_send) |->
                          Msg("record", _format_accident_message(accidents_to_send[i], env.now))])

\* _handle_events_command(location)
_handle_events_command(location, env, maxres) ==
    LET fetch == Call(GetEventsParams, {"location"}, T_TypeErrorEvents, get_events(env))
        non_accident_events == NonAccidents(fetch.value)
        events_to_send == PyPrefix(non_accident_events, maxres)
    IN  IF fetch.raised THEN Raised(<< >>, fetch.exc)
        ELSE IF non_accident_events = << >>
        THEN Returned(<<Msg("none_found", T_NoEventsFor \o location \o T_Quote)>>)
        ELSE Returned([i \in 1..Len(events_to_send) |->
                          Msg("record", _format_event_message(events_to_send[i]))])

\* str(alert) of the alert with identifier n
AlertStr(n) == T_AlertOpen \o IntToStr(n) \o T_AlertClose

\* _handle_alerts_command without its summary message
_handle_alerts_command_NoSummary(location, env, maxres) ==
    LET fetch == Call(GetAlertsParams, {}, << >>, get_alerts(env))
        alerts == fetch.value
        alerts_to_send == PyPrefix(alerts, maxres)
    IN  IF fetch.raised THEN Raised(<< >>, fetch.exc)
        ELSE IF alerts = << >> THEN Returned(<<Msg("none_found", T_NoAlerts)>>)
        ELSE Returned([i \in 1..Len(alerts_to_send) |->
                          Msg("record", Take(AlertStr(alerts_to_send[i]), 200))])

\* _handle_alerts_command(location)
_handle_alerts_command(location, env, maxres) ==
    LET fetch == Call(GetAlertsParams, {}, << >>, get_alerts(env))
        alerts == fetch.value
        alerts_to_send == PyPrefix(alerts, maxres)
        total_count == Len(alerts)
        summary == IF total_count > maxres
                   THEN T_Found \o IntToStr(total_count) \o T_AlertsShowing
                        \o IntToStr(maxres) \o T_CloseParen
                   ELSE T_Found \o IntToStr(total_count) \o T_AlertS
    IN  IF fetch.raised THEN Raised(<< >>, fetch.exc)
        ELSE IF alerts = << >> THEN Returned(<<Msg("none_found", T_NoAlerts)>>)
        ELSE Returned(<<Msg("summary", summary)>>
                      \o [i \in 1..Len(alerts_to_send) |->
                             Msg("record", Take(AlertStr(alerts_to_send[i]), 200))])

\* _handle_weather_command(location)
_handle_weather_command(location) == Returned(<<Msg("not_implemented", T_WeatherNotImpl)>>)

\* the try block of _process_command: the handler of the command type
Dispatch(command_type, location, env, maxres) ==
    IF command_type = KW_accidents THEN _handle_accidents_command(location, env, maxres)
    ELSE IF command_type = KW_events THEN _handle_events_command(location, env, maxres)
    ELSE IF command_type = KW_alerts THEN _handle_alerts_command(location, env, maxres)
    ELSE IF command_type = KW_weather THEN _handle_weather_command(location)
    ELSE \* "Unknown command type": a warning is logged
         Returned(<< >>)

\* CatchAtDispatch without the except clause: the exception goes on to the
\* caller and no error reply is sent
CatchAtDispatch_Uncaught(command_type, h) ==
    [out |-> h.out, raised |-> h.raised, caught |-> FALSE]

\* CatchAtDispatch with the whole text of the exception in the reply: str(e)
CatchAtDispatch_Untruncated(command_type, h) ==
    IF h.raised
    THEN [out |-> h.out \o <<Msg("error", T_ErrorProcessing \o command_type \o T_Request
                                          \o h.exc)>>,
          raised |-> FALSE, caught |-> TRUE]
    ELSE [out |-> h.out, raised |-> FALSE, caught |-> FALSE]

\* the except clause of _process_command: the handler's messages, then the
\* error reply when the handler raised
CatchAtDispatch(command_type, h) ==
    IF h.raised
    THEN [out |-> h.out \o <<Msg("error", T_ErrorProcessing \o command_type \o T_Request
                                          \o Take(h.exc, 100))>>,
          raised |-> FALSE, caught |-> TRUE]
    ELSE [out |-> h.out, raised |-> FALSE, caught |-> FALSE]

\* the method of the data collaborator that the handler of a command type
\* calls
FetchesOf(command_type) ==
    IF command_type = KW_accidents THEN <<"get_accidents">>
    ELSE IF command_type = KW_events THEN <<"get_events">>
    ELSE IF command_type = KW_alerts THEN <<"get_alerts">>
    ELSE << >>

\* _process_command that answers a text that is no command with the events
\* of the whole state
_process_command_AnswersChatter(text, env, maxres) ==
    IF ~text.isStr
    THEN [matched |-> FALSE, command_type |-> << >>, location |-> << >>,
          out |-> << >>, raised |-> TRUE, caught |-> FALSE, fetches |-> << >>]
    ELSE LET match == ParseCommand(text.chars)
             location == _normalize_interstate(match.location)
             r == CatchAtDispatch(match.command_type,
                                  Dispatch(match.command_type, location, env, maxres))
             d == CatchAtDispatch(KW_events, Dispatch(KW_events, << >>, env, maxres))
         IN  IF ~match.matched
             THEN [matched |-> FALSE, command_type |-> << >>, location |-> << >>,
                   out |-> d.out, raised |-> FALSE, caught |-> d.caught,
                   fetches |-> FetchesOf(KW_events)]
             ELSE [matched |-> TRUE, command_type |-> match.command_type,
                   location |-> location, out |-> r.out, raised |-> r.raised,
                   caught |-> r.caught, fetches |-> FetchesOf(match.command_type)]

\* _process_command(message): [matched, command_type, location, out, raised,
\* caught]; raised: an exception left _process_command; caught: the handler
\* raised and the except clause ran.  text.isStr is FALSE for a payload text
\* that is no str: message.strip() then raises before the try block.
\* fetches: the methods of the data collaborator the call called, in order.
_process_command(text, env, maxres) ==
    IF ~text.isStr
    THEN [matched |-> FALSE, command_type |-> << >>, location |-> << >>,
          out |-> << >>, raised |-> TRUE, caught |-> FALSE, fetches |-> << >>]
    ELSE LET match == ParseCommand(text.chars)
             location == _normalize_interstate(match.location)
             r == CatchAtDispatch(match.command_type,
                                  Dispatch(match.command_type, location, env, maxres))
         IN  IF ~match.matched
             THEN [matched |-> FALSE, command_type |-> << >>, location |-> << >>,
                   out |-> << >>, raised |-> FALSE, caught |-> FALSE, fetches |-> << >>]
             ELSE [matched |-> TRUE, command_type |-> match.command_type,
                   location |-> location, out |-> r.out, raised |-> r.raised,
                   caught |-> r.caught, fetches |-> FetchesOf(match.command_type)]

(***************************************************************************)
(* MeshtasticListener._on_message_received                                 *)
(***************************************************************************)
\* PacketChannel with the wrong default: packet.get('channel', 1)
PacketChannel_DefaultOne(p) == IF p.channel.present THEN p.channel.value ELSE 1

\* packet.get('channel', 0)
PacketChannel(p) == IF p.channel.present THEN p.channel.value ELSE 0

\* Admitted without the check of the port number
Admitted_AnyPort(p, listen_channel) ==
    /\ p.hasDecoded
    /\ (IF p.channel.present THEN p.channel.value ELSE 0) = listen_channel
    /\ p.text.present

\* the admission filter: decoded payload, port number, channel, text
Admitted(p, listen_channel) ==
    /\ p.hasDecoded
    /\ p.portnum = "TEXT_MESSAGE_APP"
    /\ PacketChannel(p) = listen_channel
    /\ p.text.present

\* IsOurMessage with the comparison of the sender id forgotten
IsOurMessage_NeverEcho(p, iface, info) == FALSE

\* is_our_message: iface is self.interface ("none" for None), info is
\* interface.myInfo (<< >> for None, <<my_node_num>> otherwise); the sender id
\* is packet.get('from', 'Unknown'), and a str never equals a node number
IsOurMessage(p, iface, info) ==
    /\ iface # "none"
    /\ info # << >>
    /\ p.from.kind = "num"
    /\ p.from.num = info[1]

\* the except clause of _on_message_received: every Exception is logged and
\* none leaves the callback
CatchAtCallback(raised) == [logged |-> raised, escaped |-> FALSE]

RECURSIVE SendAll(_, _, _, _, _)
\* the transmission attempts of the calls
\* send_message(m.text, channel_index=channel), for m in out, in order
SendAll(out, channel, iface, base, fails) ==
    IF out = << >> THEN << >>
    ELSE LET first == SendMessage(Head(out).text, <<channel>>, iface, channel, base, fails)
         IN  first.tx \o SendAll(Tail(out), channel, iface, base + Len(first.tx), fails)

\* what one run of the callback does
CallbackOutcome(p, e, listen_channel, maxres, iface, info) ==
    LET admitted == Admitted(p, listen_channel)
        echo == admitted /\ IsOurMessage(p, iface, info)
        processed == admitted /\ ~echo
        r == _process_command(p.text, e, maxres)
        c == CatchAtCallback(processed /\ r.raised)
    IN  [admitted |-> admitted,
         echo |-> echo,
         processed |-> processed,
         matched |-> processed /\ r.matched,
         command_type |-> IF processed THEN r.command_type ELSE << >>,
         location |-> IF processed THEN r.location ELSE << >>,
         caught |-> processed /\ r.caught,
         fetches |-> IF processed THEN r.fetches ELSE << >>,
         logged |-> c.logged,
         escaped |-> c.escaped,
         out |-> IF processed THEN r.out ELSE << >>]

(***************************************************************************)
(* Bounds and inputs of the listener.                                      *)
(***************************************************************************)
\* largest channel index configured or carried by a packet
MaxChannel == 1
\* largest configured max_results
MaxResults == 2
\* most alerts the remote service returns
MaxAlerts == 3

\* the node number of the local radio, and of another node
OurNode == 1
OtherNode == 2

PortNums == {"", "TEXT_MESSAGE_APP", "TELEMETRY_APP"}

CommandTexts ==
    {T_events_phoenix, T_accidents_101, T_alerts_az, T_weather_x, T_hello_there, T_EVENTS_I10,
     T_eventLongS_x}

AbsentText == [present |-> FALSE, isStr |-> TRUE, chars |-> << >>]

StrText(chars) == [present |-> TRUE, isStr |-> TRUE, chars |-> chars]

\* the 'text' values of a decoded payload: absent, a str, or a value that is
\* no str
PayloadTexts ==
    {AbsentText, [present |-> TRUE, isStr |-> FALSE, chars |-> << >>]}
    \cup {StrText(t) : t \in CommandTexts}

Channels ==
    {[present |-> FALSE, value |-> 0]} \cup {[present |-> TRUE, value |-> c] : c \in 0..MaxChannel}

Senders ==
    {[kind |-> "absent", num |-> 0], [kind |-> "str", num |-> 0],
     [kind |-> "num", num |-> OurNode], [kind |-> "num", num |-> OtherNode]}

\* the packets the transport delivers; a packet without 'decoded' has no
\* port number and no text
Packets ==
    {[hasDecoded |-> d, portnum |-> pn, text |-> t, channel |-> c, from |-> f] :
        d \in BOOLEAN, pn \in PortNums, t \in PayloadTexts, c \in Channels, f \in Senders}
    \ {p \in [hasDecoded : {FALSE}, portnum : PortNums, text : PayloadTexts,
              channel : Channels, from : Senders] :
          p.portnum # "" \/ p.text # AbsentText}

Event(type, road, dir, loc) ==
    [EventType |-> type, RoadwayName |-> road, DirectionOfTravel |-> dir, Location |-> loc,
     LanesAffected |-> << >>, LastUpdated |-> [kind |-> "empty", secs |-> 0]]

RoadWork == Event(T_ROADWORK, T_I10, T_East, << >>)
Crash == Event(T_ACCIDENT_TYPE, T_I10, << >>, T_phoenix)

EventLists == {<< >>, <<RoadWork>>, <<Crash>>, <<Crash, RoadWork>>}

FailureStatuses == {"http_error", "request_error", "bad_json"}

\* the remote state that answers nothing
QuietEnv ==
    [eventsStatus |-> "ok", events |-> << >>, alertsStatus |-> "ok", alerts |-> << >>, now |-> 0]

\* the remote states a fetch of events can meet
EventEnvs ==
    {[QuietEnv EXCEPT !.events = ev] : ev \in EventLists}
    \cup {[QuietEnv EXCEPT !.eventsStatus = st] : st \in FailureStatuses}

\* the remote states a fetch of alerts can meet ("not_list": the response
\* decodes to something that is no list)
AlertEnvs ==
    {[QuietEnv EXCEPT !.alerts = [i \in 1..k |-> i]] : k \in 0..MaxAlerts}
    \cup {[QuietEnv EXCEPT !.alertsStatus = st] : st \in FailureStatuses \cup {"not_list"}}

\* the remote states that matter to a payload text: those of the service
\* its command asks
EnvsFor(text) ==
    LET m == IF text.present /\ text.isStr THEN ParseCommand(text.chars) ELSE NoMatch
    IN  IF m.command_type \in {KW_accidents, KW_events} THEN EventEnvs
        ELSE IF m.command_type = KW_alerts THEN AlertEnvs
        ELSE {QuietEnv}

NoPacket ==
    [hasDecoded |-> FALSE, portnum |-> "", text |-> AbsentText,
     channel |-> [present |-> FALSE, value |-> 0], from |-> [kind |-> "absent", num |-> 0]]

NoCb ==
    [admitted |-> FALSE, echo |-> FALSE, processed |-> FALSE, matched |-> FALSE,
     command_type |-> << >>, location |-> << >>, caught |-> FALSE, fetches |-> << >>,
     logged |-> FALSE, escaped |-> FALSE]

(***************************************************************************)
(* Actions                                                                 *)
(***************************************************************************)
chunkerVars == <<message, max_length, remaining, messages, part_num, returned>>
configVars == <<channel_index, max_results>>
listenerVars == <<running, interface, senderInterface, myInfo, subscribed, startPc,
                  opened, closeCalls>>

\* the transport connections: "c1" is the one MeshtasticSender.__init__ opens
\* when it is given a TCP host or a device path, "c2" the one start() opens
Connections == {"c1", "c2"}

\* `if iface: iface.close()` of stop() and of MeshtasticSender.close();
\* the calls on one connection are counted 0, 1, 2, where 2 stands for
\* twice or more
CloseIfAny(iface, calls) ==
    IF iface = "none" THEN calls
    ELSE [calls EXCEPT ![iface] = IF calls[iface] < 2 THEN calls[iface] + 1 ELSE 2]

\* the connections that were opened and on which close() was not called
OpenConnections(o, calls) == {c \in o : calls[c] = 0}
callbackVars == <<packet, remote, cb, outbound>>
sendVars == <<sendArg, sendResult>>
callVars == <<call, result>>

\* no function applied on its own
NoCall == [fn |-> "none"]

\* _split_message is called: the early return of a short message, or the
\* initialisation of the locals before the loop
SplitCall(m, L) ==
    /\ pc = "idle"
    /\ op' = "split"
    /\ message' = m
    /\ max_length' = L
    /\ IF Len(m) <= L
       THEN /\ messages' = SingleFragment(m)
            /\ remaining' = << >>
            /\ part_num' = 1
            /\ returned' = TRUE
            /\ pc' = "returned"
       ELSE /\ remaining' = SplitEnter(m).remaining
            /\ messages' = SplitEnter(m).messages
            /\ part_num' = SplitEnter(m).part_num
            /\ returned' = FALSE
            /\ pc' = "split"
    /\ UNCHANGED <<configVars, listenerVars, callbackVars, sendVars, transmissions>>
    /\ UNCHANGED callVars

\* one evaluation of the loop condition and, when it is true, of the body
SplitLoop ==
    /\ pc = "split"
    /\ LET st == SplitStep([remaining |-> remaining, messages |-> messages,
                            part_num |-> part_num, returned |-> returned], max_length)
       IN  /\ remaining' = st.remaining
           /\ messages' = st.messages
           /\ part_num' = st.part_num
           /\ returned' = st.returned
           /\ pc' = IF st.returned THEN "returned" ELSE "split"
    /\ UNCHANGED <<op, message, max_length>>
    /\ UNCHANGED <<configVars, listenerVars, callbackVars, sendVars, transmissions>>
    /\ UNCHANGED callVars

\* send_message(msg, channel_index=channelArg) is called on the sender; any
\* of its transmission attempts may raise
SendMessageCall(msg, channelArg) ==
    /\ pc = "idle"
    /\ \E n \in {Len(SendMessage(msg, channelArg, senderInterface, channel_index, 0, {}).tx)} :
          \E fails \in SUBSET (1..n) :
             \E r \in {SendMessage(msg, channelArg, senderInterface, channel_index, 0, fails)} :
                /\ transmissions' = r.tx
                /\ sendResult' = IF r.result THEN "True" ELSE "False"
    /\ sendArg' = [message |-> msg, channel_index |-> channelArg]
    /\ op' = "send"
    /\ pc' = "returned"
    /\ UNCHANGED <<chunkerVars, configVars, listenerVars, callbackVars>>
    /\ UNCHANGED callVars

\* The callback runs to its end on packet p: e is the state of the remote
\* services at that time, and any of the transmission attempts may raise.
RunCallback(p, e) ==
    /\ \E o \in {CallbackOutcome(p, e, channel_index, max_results, interface, myInfo)} :
          /\ cb' = [admitted |-> o.admitted, echo |-> o.echo, processed |-> o.processed,
                    matched |-> o.matched, command_type |-> o.command_type,
                    location |-> o.location, caught |-> o.caught, fetches |-> o.fetches,
                    logged |-> o.logged, escaped |-> o.escaped]
          /\ outbound' = [i \in 1..Len(o.out) |->
                             [kind |-> o.out[i].kind, text |-> o.out[i].text,
                              channel |-> channel_index]]
          /\ \E n \in {Len(SendAll(o.out, channel_index, senderInterface, 0, {}))} :
                \E fails \in SUBSET (1..n) :
                    transmissions' = SendAll(o.out, channel_index, senderInterface, 0, fails)
    /\ packet' = p
    /\ remote' = e
    /\ op' = "receive"
    /\ pc' = "returned"
    /\ UNCHANGED <<chunkerVars, configVars, listenerVars, sendVars>>
    /\ UNCHANGED callVars

\* the transport delivers packet p to the subscribed callback: the topic
\* "meshtastic.receive" carries the packets of every connection of the
\* process that is open
OnMessageReceived(p, e) ==
    /\ pc = "idle"
    /\ subscribed
    /\ OpenConnections(opened, closeCalls) # {}
    /\ RunCallback(p, e)

\* simulate_message(text): the packet it builds is handed to the callback of
\* a listener that was not started
SimulateMessage(text, e) ==
    /\ pc = "idle"
    /\ startPc = "new"
    /\ RunCallback([hasDecoded |-> TRUE, portnum |-> "TEXT_MESSAGE_APP",
                    text |-> StrText(text), channel |-> [present |-> TRUE, value |-> 0],
                    from |-> [kind |-> "str", num |-> 0]], e)

\* start() up to the wait loop: the connection is made, shared with the
\* sender and the callback subscribed; info is the myInfo of the interface
StartConnected(info) ==
    /\ pc = "idle"
    /\ startPc = "new"
    /\ running' = TRUE
    /\ interface' = "c2"
    /\ senderInterface' = "c2"
    /\ myInfo' = info
    /\ subscribed' = TRUE
    /\ startPc' = "loop"
    /\ opened' = opened \cup {"c2"}
    /\ UNCHANGED closeCalls
    /\ UNCHANGED <<pc, op, chunkerVars, configVars, callbackVars, sendVars, transmissions>>
    /\ UNCHANGED callVars

\* StartFailed without the `except Exception` clause: the exception of the
\* connection leaves start() and stop() is not called
StartFailed_Uncaught ==
    /\ pc = "idle"
    /\ startPc = "new"
    /\ running' = TRUE
    /\ startPc' = "raised"
    /\ UNCHANGED <<interface, senderInterface, myInfo, subscribed, opened, closeCalls>>
    /\ UNCHANGED <<pc, op, chunkerVars, configVars, callbackVars, sendVars, transmissions>>
    /\ UNCHANGED callVars

\* start() when making the connection raises: the except clause calls
\* stop(), which finds no interface to close, and start() returns
StartFailed ==
    /\ pc = "idle"
    /\ startPc = "new"
    /\ running' = FALSE
    /\ startPc' = "done"
    /\ closeCalls' = CloseIfAny(interface, closeCalls)
    /\ UNCHANGED <<interface, senderInterface, myInfo, subscribed, opened>>
    /\ UNCHANGED <<pc, op, chunkerVars, configVars, callbackVars, sendVars, transmissions>>
    /\ UNCHANGED callVars

\* stop(): called from outside, or by the KeyboardInterrupt handler of
\* start() (byInterrupt), which then returns; it runs on the main thread,
\* between two callbacks or while one is sending its reply
Stop(byInterrupt) ==
    /\ pc \in {"idle", "sending"}
    /\ byInterrupt => startPc = "loop"
    /\ running' = FALSE
    /\ closeCalls' = CloseIfAny(interface, closeCalls)
    /\ startPc' = IF byInterrupt THEN "done" ELSE startPc
    /\ UNCHANGED <<interface, senderInterface, myInfo, subscribed, opened>>
    /\ UNCHANGED <<pc, op, chunkerVars, configVars, callbackVars, sendVars, transmissions>>
    /\ UNCHANGED callVars

\* WaitLoopExit for the loop `while not self.running`: it ends only while
\* the flag is set
WaitLoopExit_WhileRunning ==
    /\ pc = "idle"
    /\ startPc = "loop"
    /\ running
    /\ startPc' = "done"
    /\ UNCHANGED <<running, interface, senderInterface, myInfo, subscribed, opened, closeCalls>>
    /\ UNCHANGED <<pc, op, chunkerVars, configVars, callbackVars, sendVars, transmissions>>
    /\ UNCHANGED callVars

\* the wait loop of start() finds running false and start() returns
WaitLoopExit ==
    /\ pc = "idle"
    /\ startPc = "loop"
    /\ ~running
    /\ startPc' = "done"
    /\ UNCHANGED <<running, interface, senderInterface, myInfo, subscribed, opened, closeCalls>>
    /\ UNCHANGED <<pc, op, chunkerVars, configVars, callbackVars, sendVars, transmissions>>
    /\ UNCHANGED callVars

\* MeshtasticSender.close() is called on the listener's sender
SenderClose ==
    /\ pc = "idle"
    /\ closeCalls' = CloseIfAny(senderInterface, closeCalls)
    /\ UNCHANGED <<running, interface, senderInterface, myInfo, subscribed, startPc, opened>>
    /\ UNCHANGED <<pc, op, chunkerVars, configVars, callbackVars, sendVars, transmissions>>
    /\ UNCHANGED callVars

\* the operation that returned is over: its arguments, locals and results
\* are dropped and the next operation may begin
Resume ==
    /\ pc = "returned"
    /\ pc' = "idle"
    /\ op' = "none"
    /\ message' = << >>
    /\ max_length' = 1
    /\ remaining' = << >>
    /\ messages' = << >>
    /\ part_num' = 1
    /\ returned' = FALSE
    /\ packet' = NoPacket
    /\ remote' = QuietEnv
    /\ cb' = NoCb
    /\ outbound' = << >>
    /\ transmissions' = << >>
    /\ sendArg' = [message |-> << >>, channel_index |-> << >>]
    /\ sendResult' = "none"
    /\ call' = NoCall
    /\ result' = << >>
    /\ UNCHANGED <<configVars, listenerVars>>

\* the texts handed to send_message directly
SendTexts ==
    {T_NoAlerts, [i \in 1..MAX_MESSAGE_LENGTH |-> "a"], [i \in 1..(MAX_MESSAGE_LENGTH + 1) |-> "a"]}

Init ==
    /\ pc = "idle"
    /\ op = "none"
    /\ message = << >>
    /\ max_length = 1
    /\ remaining = << >>
    /\ messages = << >>
    /\ part_num = 1
    /\ returned = FALSE
    /\ channel_index \in 0..MaxChannel
    /\ max_results \in 0..MaxResults
    /\ running = FALSE
    /\ interface = "none"
    /\ senderInterface \in {"none", "c1"}
    /\ myInfo = << >>
    /\ subscribed = FALSE
    /\ startPc = "new"
    /\ opened = (IF senderInterface = "none" THEN {} ELSE {senderInterface})
    /\ closeCalls = [c \in Connections |-> 0]
    /\ packet = NoPacket
    /\ remote = QuietEnv
    /\ cb = NoCb
    /\ outbound = << >>
    /\ transmissions = << >>
    /\ sendArg = [message |-> << >>, channel_index |-> << >>]
    /\ sendResult = "none"
    /\ call = NoCall
    /\ result = << >>

\* An operation begins only between operations; the guard stands before the
\* choice of its inputs.
SplitCalls ==
    /\ pc = "idle"
    /\ \E m \in TextsUpTo(MaxTextLen), L \in 1..MaxL : SplitCall(m, L)

SendMessageCalls ==
    /\ pc = "idle"
    /\ \E msg \in SendTexts, c \in {<< >>} \cup {<<ch>> : ch \in 0..MaxChannel} :
          SendMessageCall(msg, c)

Deliveries ==
    /\ pc = "idle"
    /\ subscribed
    /\ OpenConnections(opened, closeCalls) # {}
    /\ \E p \in Packets : \E e \in EnvsFor(p.text) : OnMessageReceived(p, e)

Simulations ==
    /\ pc = "idle"
    /\ startPc = "new"
    /\ \E text \in CommandTexts : \E e \in EnvsFor(StrText(text)) : SimulateMessage(text, e)

Next ==
    \/ SendMessageCalls
    \/ Deliveries
    \/ Simulations
    \/ \E info \in {<< >>, <<OurNode>>} : StartConnected(info)
    \/ StartFailed
    \/ \E byInterrupt \in BOOLEAN : Stop(byInterrupt)
    \/ WaitLoopExit
    \/ Resume

\* the listener and the sender
Spec == Init /\ [][Next]_vars

\* _split_message alone, called with every text and every max_length of the
\* bounds; the objects around it stay as constructed
ChunkInit == Init /\ channel_index = 0 /\ max_results = 0 /\ senderInterface = "none"

ChunkNext ==
    \/ SplitCalls
    \/ SplitLoop
    \/ Resume

ChunkSpec == ChunkInit /\ [][ChunkNext]_vars

\* the loop of _split_message is running code: it keeps taking its steps
ChunkFairSpec == ChunkSpec /\ WF_vars(SplitLoop)

\* the sender alone: send_message called directly on a sender with and
\* without an interface, and _split_message, which reads no field of the
\* sender, on one of them
SenderInit == Init /\ max_results = 0

SenderNext ==
    \/ (channel_index = 0 /\ senderInterface = "none" /\ SplitCalls)
    \/ SplitLoop
    \/ SendMessageCalls
    \/ Resume

SenderSpec == SenderInit /\ [][SenderNext]_vars

\* a text message of another node on the listening channel
TextPacket(text, ch) ==
    [hasDecoded |-> TRUE, portnum |-> "TEXT_MESSAGE_APP", text |-> StrText(text),
     channel |-> [present |-> TRUE, value |-> ch], from |-> [kind |-> "num", num |-> OtherNode]]

\* the life of a listener: started, stopped and closed in any order, with
\* packets arriving in between
LifecycleDeliveries ==
    /\ pc = "idle"
    /\ subscribed
    /\ \E text \in {T_weather_x, T_hello_there} :
          OnMessageReceived(TextPacket(text, channel_index), QuietEnv)

LifecycleNext ==
    \/ \E info \in {<< >>, <<OurNode>>} : StartConnected(info)
    \/ StartFailed
    \/ \E byInterrupt \in BOOLEAN : Stop(byInterrupt)
    \/ SenderClose
    \/ WaitLoopExit
    \/ LifecycleDeliveries
    \/ Resume

LifecycleSpec == Init /\ [][LifecycleNext]_vars

\* The wait loop of start() is running code of the main thread: it tests the
\* flag once a second whatever the callbacks of the transport's thread do, and
\* a callback that runs comes to its end.
LifecycleFairSpec == LifecycleSpec /\ SF_vars(WaitLoopExit) /\ WF_vars(Resume)

(***************************************************************************)
(* Claims about the listener                                               *)
(***************************************************************************)
\* a run of the packet callback has ended and its results are at hand
Handled == pc = "returned" /\ op = "receive"

\* the packet of that run passes the four checks of the admission filter
PassesFilter ==
    /\ packet.hasDecoded
    /\ packet.portnum = "TEXT_MESSAGE_APP"
    /\ (IF packet.channel.present THEN packet.channel.value ELSE 0) = channel_index
    /\ packet.text.present

\* that run neither parsed a command nor sent anything
NothingDone ==
    /\ ~cb.processed
    /\ ~cb.matched
    /\ outbound = << >>
    /\ transmissions = << >>

\* C1: an admitted packet whose sender id equals the local node id exposed by
\* the transport is never passed to command parsing and nothing is sent in
\* response, whatever its text is.
C1_SelfEchoNeverDispatched ==
    (/\ Handled
     /\ PassesFilter
     /\ interface # "none"
     /\ myInfo # << >>
     /\ packet.from.kind = "num"
     /\ packet.from.num = myInfo[1]) => NothingDone

\* C1 witness: the local node's own "events phoenix" came back on the
\* listening channel
C1_Witness ==
    /\ Handled
    /\ PassesFilter
    /\ myInfo = <<OurNode>>
    /\ packet.from = [kind |-> "num", num |-> OurNode]
    /\ packet.text = StrText(T_events_phoenix)
    /\ cb.echo

\* C2: a packet without decoded payload, or whose payload type is not the
\* plain-text type, or whose payload has no text, is rejected before command
\* parsing: no handler runs, nothing is sent, no exception leaves the callback.
C2_NonTextRejected ==
    (/\ Handled
     /\ \/ ~packet.hasDecoded
        \/ packet.portnum # "TEXT_MESSAGE_APP"
        \/ ~packet.text.present) => (NothingDone /\ ~cb.admitted /\ ~cb.escaped)

\* C2 witness: a TELEMETRY_APP packet carrying the text "events phoenix" on
\* the listening channel from another node
C2_Witness ==
    /\ Handled
    /\ packet.hasDecoded
    /\ packet.portnum = "TELEMETRY_APP"
    /\ packet.text = StrText(T_events_phoenix)
    /\ packet.channel = [present |-> TRUE, value |-> channel_index]
    /\ packet.from = [kind |-> "num", num |-> OtherNode]

\* C3: a text packet reaches command parsing only if its channel index (0 when
\* the packet has no channel field) equals the configured channel; a packet on
\* any other channel runs no handler and sends nothing.
C3_OnlyListeningChannel ==
    Handled =>
        LET ch == IF packet.channel.present THEN packet.channel.value ELSE 0
        IN  /\ cb.processed => ch = channel_index
            /\ ch # channel_index => (NothingDone /\ ~cb.admitted)

\* C3 witness: a command without channel field from another node, while the
\* listener is configured for channel 1
C3_Witness ==
    /\ Handled
    /\ channel_index = 1
    /\ ~packet.channel.present
    /\ packet.hasDecoded
    /\ packet.portnum = "TEXT_MESSAGE_APP"
    /\ packet.text = StrText(T_events_phoenix)
    /\ packet.from = [kind |-> "num", num |-> OtherNode]

\* the records the remote service holds for command type k: what the data
\* collaborator has to answer with
MatchingRecords(k) ==
    IF k = KW_accidents THEN get_accidents(remote)
    ELSE IF k = KW_events THEN NonAccidents(get_events(remote))
    ELSE get_alerts(remote)

\* the "none found" text of command type k for location loc
NoneFoundText(k, loc) ==
    IF k = KW_accidents THEN T_NoAccidentsFor \o loc \o T_Quote
    ELSE IF k = KW_events THEN T_NoEventsFor \o loc \o T_Quote
    ELSE T_NoAlerts

\* C4: an accidents, events or alerts command received on the configured
\* channel from a non-echo sender, with no matching records, is answered by
\* exactly one message, the "none found" text; "events phoenix" is answered
\* by exactly "No events found for 'phoenix'".
C4_NoneFoundReply ==
    (/\ Handled
     /\ cb.matched
     /\ cb.command_type \in {KW_accidents, KW_events, KW_alerts}
     /\ MatchingRecords(cb.command_type) = << >>) =>
        /\ Len(outbound) = 1
        /\ outbound[1].text = NoneFoundText(cb.command_type, cb.location)
        /\ packet.text = StrText(T_events_phoenix) => outbound[1].text = T_NoEventsForPhoenix

\* the handler of the command of that run raises
HandlerRaises ==
    /\ cb.matched
    /\ Dispatch(cb.command_type, cb.location, remote, max_results).raised

\* C5: an exception raised while a parsed command is handled is turned into
\* exactly one error message on the listening channel, never leaves the packet
\* callback, and leaves the listener as it was: still running, subscribed and
\* connected, ready for the next packet.
C5_HandlerExceptionBecomesReply ==
    /\ []((Handled /\ HandlerRaises) =>
            /\ Cardinality({i \in 1..Len(outbound) : outbound[i].kind = "error"}) = 1
            /\ outbound[Len(outbound)].kind = "error"
            /\ outbound[Len(outbound)].channel = channel_index
            /\ outbound[Len(outbound)].text =
                   T_ErrorProcessing \o cb.command_type \o T_Request
                   \o Take(Dispatch(cb.command_type, cb.location, remote, max_results).exc, 100)
            /\ ~cb.escaped
            /\ ~cb.logged)
    /\ [][(op' = "receive" /\ pc' = "returned") => UNCHANGED listenerVars]_vars

\* C5 witness: "accidents 101" from another node made the handler raise while
\* the listener was running, and the error reply went out on the radio
C5_Witness ==
    /\ Handled
    /\ HandlerRaises
    /\ running
    /\ packet.text = StrText(T_accidents_101)
    /\ Len(transmissions) = 1
    /\ transmissions[1].ok

\* the answer of the data collaborator to the fetch of command type k, as the
\* handler calls it
Fetch(k) ==
    IF k = KW_accidents
    THEN Call(GetAccidentsParams, {"location"}, T_TypeErrorAccidents, get_accidents(remote))
    ELSE IF k = KW_events
    THEN Call(GetEventsParams, {"location"}, T_TypeErrorEvents, get_events(remote))
    ELSE Call(GetAlertsParams, {}, << >>, get_alerts(remote))

\* the data collaborator returned a non-empty result set to the command
NonEmptyResult ==
    /\ Handled
    /\ cb.matched
    /\ cb.command_type \in {KW_accidents, KW_events, KW_alerts}
    /\ ~Fetch(cb.command_type).raised
    /\ Fetch(cb.command_type).value # << >>

\* C6 as stated: for every non-empty result set the number of outbound
\* messages of one command is at most max_results.
C6_AtMostMaxResultsMessages == NonEmptyResult => Len(outbound) <= max_results

\* C6 amended: for every non-empty result set at most max_results record
\* messages are sent, and at most max_results + 1 messages in all (the alerts
\* handler sends one count summary before the records).
C6_AtMostMaxResultsRecords ==
    NonEmptyResult =>
        /\ Cardinality({i \in 1..Len(outbound) : outbound[i].kind = "record"}) <= max_results
        /\ Len(outbound) <= max_results + 1

\* C6 witness: more alerts than max_results >= 1 were returned and the reply
\* was truncated
C6_Witness ==
    /\ NonEmptyResult
    /\ max_results >= 1
    /\ Len(Fetch(cb.command_type).value) > max_results
    /\ Len(outbound) = max_results + 1

\* C19: when the text (a str) of an admitted packet that is no echo does not
\* parse as a command, the listener sends nothing, calls no method of the
\* data collaborator, raises and logs no error, and its state is as before.
C19_ChatterIgnored ==
    /\ []((/\ Handled
           /\ cb.processed
           /\ packet.text.isStr
           /\ ~(cb.matched /\ cb.command_type \in Keywords)) =>
             /\ outbound = << >>
             /\ transmissions = << >>
             /\ cb.fetches = << >>
             /\ ~cb.caught /\ ~cb.logged /\ ~cb.escaped)
    /\ [][(op' = "receive" /\ pc' = "returned") =>
             UNCHANGED <<channel_index, max_results, listenerVars>>]_vars

\* C19 witness: "hello there" arrived from another node on the listening
\* channel of a running listener
C19_Witness ==
    /\ Handled
    /\ cb.processed
    /\ ~cb.matched
    /\ running
    /\ packet.text = StrText(T_hello_there)
    /\ packet.from = [kind |-> "num", num |-> OtherNode]

(***************************************************************************)
(* Claims about the chunker                                                *)
(***************************************************************************)
\* a call of _split_message on a text longer than max_length has returned
LongSplitReturned == pc = "returned" /\ op = "split" /\ Len(message) > max_length

\* C7: every fragment returned by _split_message(T, L) has length at most L,
\* the fragments that carry the continuation marker included.
C7_EveryFragmentWithinL ==
    (pc = "returned" /\ op = "split") =>
        \A i \in 1..Len(messages) : Len(messages[i]) <= max_length

\* C8: for a text T with Len(T) <= L the chunker returns exactly the one
\* fragment T, unchanged; and send_message never splits or alters a message of
\* at most MAX_MESSAGE_LENGTH characters: it hands it to the transport once,
\* as it is (a sender without interface hands nothing to any transport).
C8_ShortTextUnchanged ==
    /\ (pc = "returned" /\ op = "split" /\ Len(message) <= max_length) =>
           (returned /\ messages = <<message>>)
    /\ (pc = "returned" /\ op = "send" /\ Len(sendArg.message) <= MAX_MESSAGE_LENGTH) =>
           /\ \A i \in 1..Len(transmissions) : transmissions[i].text = sendArg.message
           /\ Len(transmissions) = IF senderInterface = "none" THEN 0 ELSE 1

\* C8 witness: a text of exactly max_length characters that begins and ends
\* with whitespace was chunked
C8_Witness ==
    /\ pc = "returned" /\ op = "split"
    /\ Len(message) = max_length
    /\ Len(message) >= 2
    /\ message[1] = " "
    /\ message[Len(message)] = " "

\* C9: for a text longer than L every fragment after the first, the final
\* one included, begins with the marker "...", and the first does not get it.
C9_MarkerOnEveryLaterFragment ==
    LongSplitReturned =>
        /\ \A i \in 2..Len(messages) : Take(messages[i], Len(Marker)) = Marker
        /\ Take(messages[1], Len(Marker)) # Marker

\* C10: the chunker terminates for every non-empty text and every L >= 1:
\* an iteration that does not return leaves `remaining` strictly shorter,
\* and a call that entered the loop returns.
C10_Terminates ==
    /\ [][(pc = "split" /\ pc' = "split") => Len(remaining') < Len(remaining)]_vars
    /\ [](pc = "split" => <>(pc = "returned" /\ op = "split" /\ returned))

\* C10 witness: the loop is in its third iteration or later
C10_Witness == pc = "split" /\ part_num >= 3 /\ remaining # << >>

(***************************************************************************)
(* Claims about the chunker's content and the sender's transmissions       *)
(***************************************************************************)
RECURSIVE NonWhitespace(_)
\* the characters of s that are no whitespace, in order
NonWhitespace(s) ==
    IF s = << >> THEN << >>
    ELSE IF Head(s) \in Whitespace THEN NonWhitespace(Tail(s))
    ELSE <<Head(s)>> \o NonWhitespace(Tail(s))

\* Fragment i of the returned list got the marker: it is not the first, and
\* it was not appended by the "last part" branch, which leaves `remaining`
\* as the fragment it appended.
MarkerAdded(i) == i >= 2 /\ (i < Len(messages) \/ remaining = << >>)

\* fragment i without the marker that was added to it
Unmarked(i) == IF MarkerAdded(i) THEN Drop(messages[i], Len(Marker)) ELSE messages[i]

RECURSIVE JoinUnmarked(_)
\* the fragments 1..n without their added markers, concatenated in order
JoinUnmarked(n) == IF n = 0 THEN << >> ELSE JoinUnmarked(n - 1) \o Unmarked(n)

\* C11: the non-whitespace characters of the fragments, added markers
\* removed and fragments concatenated in order, are the non-whitespace
\* characters of the text: no character but whitespace is lost, duplicated or
\* reordered; and every fragment said to carry a marker begins with it.
C11_ContentPreserved ==
    (pc = "returned" /\ op = "split") =>
        /\ NonWhitespace(JoinUnmarked(Len(messages))) = NonWhitespace(message)
        /\ \A i \in 1..Len(messages) : MarkerAdded(i) => Take(messages[i], Len(Marker)) = Marker

\* C11 witness: a text split into three fragments or more, with whitespace
\* dropped at a break point
C11_Witness ==
    /\ LongSplitReturned
    /\ Len(messages) >= 3
    /\ Len(JoinUnmarked(Len(messages))) < Len(message)
    /\ NonWhitespace(message) # << >>

\* send_message has returned from a call with a message too long for one
\* packet, on a sender that holds an interface
LongSendReturned ==
    /\ pc = "returned" /\ op = "send"
    /\ Len(sendArg.message) > MAX_MESSAGE_LENGTH
    /\ senderInterface # "none"

\* the fragments of the message of that call
Fragments == SplitMessage(sendArg.message, MAX_MESSAGE_LENGTH)

\* C12: the fragments f1..fn of a split message are attempted in exactly the
\* order f1, f2, ..., fn: attempt i carries fragment i, and there are n
\* attempts, so none comes early, twice or out of order.
C12_FragmentsInOrder ==
    LongSendReturned =>
        /\ Len(transmissions) = Len(Fragments)
        /\ \A i \in 1..Len(transmissions) : transmissions[i].text = Fragments[i]

\* C12 witness: a message of MAX_MESSAGE_LENGTH + 1 characters went out as
\* two different fragments
C12_Witness ==
    /\ LongSendReturned
    /\ Len(transmissions) = 2
    /\ transmissions[1].text # transmissions[2].text
    /\ transmissions[1].ok /\ transmissions[2].ok

\* C13: when the transport fails on fragment i, every later fragment is
\* still attempted and send_message returns (True) to its caller.
C13_FailureSkipsOneFragment ==
    LongSendReturned =>
        /\ \A i \in 1..Len(Fragments) :
              (i <= Len(transmissions) /\ ~transmissions[i].ok) =>
                  \A j \in (i + 1)..Len(Fragments) :
                      j <= Len(transmissions) /\ transmissions[j].text = Fragments[j]
        /\ Len(transmissions) >= 1
        /\ sendResult = "True"

\* C13 witness: the first of two fragments failed and the second was sent
C13_Witness ==
    /\ LongSendReturned
    /\ Len(transmissions) = 2
    /\ ~transmissions[1].ok
    /\ transmissions[2].ok

\* C14 as stated: a pacing wait lies between any two consecutive attempts of
\* one operation (all on one channel), whether or not the earlier succeeded.
C14_WaitBetweenAttempts ==
    \A i \in 1..(Len(transmissions) - 1) :
        transmissions[i].channel = transmissions[i + 1].channel => transmissions[i].slept

\* C14 amended: the pacing wait follows every attempt that succeeded, and
\* only those: after a failed attempt the next one is made without a wait.
C14_WaitAfterSuccessOnly ==
    \A i \in 1..Len(transmissions) : transmissions[i].slept <=> transmissions[i].ok

\* C14 witness: the first attempt failed and the second followed it without
\* a wait; the second succeeded and was followed by the wait
C14_Witness ==
    /\ pc = "returned"
    /\ Len(transmissions) >= 2
    /\ ~transmissions[1].ok /\ ~transmissions[1].slept
    /\ transmissions[2].ok /\ transmissions[2].slept

\* C15: every transmission of send_message carries the caller's channel when
\* one is given, channel 0 included, and the configured default channel
\* otherwise; all fragments of one message carry the same channel.
C15_ExplicitChannel ==
    (pc = "returned" /\ op = "send") =>
        \A i \in 1..Len(transmissions) :
            transmissions[i].channel =
                IF sendArg.channel_index # << >> THEN sendArg.channel_index[1] ELSE channel_index

\* C15 witness: a split message sent with channel_index=0 by a sender whose
\* default channel is 1
C15_Witness ==
    /\ LongSendReturned
    /\ sendArg.channel_index = <<0>>
    /\ channel_index = 1
    /\ Len(transmissions) = 2

\* C28: send_message returns True only if the message was transmitted, and
\* False otherwise: False whenever the send of a fragment failed or the
\* sender holds no interface, for one fragment and for several alike.
C28_TrueOnlyIfTransmitted ==
    (pc = "returned" /\ op = "send") =>
        (sendResult = "True" <=>
            (/\ senderInterface # "none"
             /\ transmissions # << >>
             /\ \A i \in 1..Len(transmissions) : transmissions[i].ok))

(***************************************************************************)
(* One fetch cycle: what is emitted for the list a fetch returned.         *)
(*                                                                         *)
(* The steps of main() and of the listener's handlers that follow the      *)
(* fetch, as functions of the fetched list.  An emitted message is         *)
(* [source, text]: source is <<record>> for a message made from a record   *)
(* and << >> for a "none found" message.                                   *)
(***************************************************************************)
\* longest list a fetch returns
MaxRecords == 3

T_NoAccidentsFound == <<"N", "o", " ", "a", "c", "c", "i", "d", "e", "n", "t", "s", " ",
    "f", "o", "u", "n", "d">>
T_NoEventsFound == <<"N", "o", " ", "e", "v", "e", "n", "t", "s", " ", "f", "o", "u", "n", "d">>
T_TwoLanes == <<"2", " ", "l", "a", "n", "e", "s">>

\* LastUpdated of a record: none, or a time
Updates == {[kind |-> "empty", secs |-> 0], [kind |-> "time", secs |-> 0]}

\* the accident records a fetch can return: they differ in direction and
\* last-updated, which are part of the accident key, and in the affected
\* lanes, which are not
AccidentRecords ==
    {[Event(T_ACCIDENT_TYPE, T_I10, dir, T_phoenix) EXCEPT !.LanesAffected = lanes,
                                                           !.LastUpdated = upd] :
        dir \in {<< >>, T_East}, lanes \in {<< >>, T_TwoLanes}, upd \in Updates}
    \ {r \in [EventType : {T_ACCIDENT_TYPE}, RoadwayName : {T_I10}, DirectionOfTravel : {T_East},
              Location : {T_phoenix}, LanesAffected : {<< >>, T_TwoLanes}, LastUpdated : Updates] :
          r.LastUpdated.kind = "time"}

\* the event records a fetch can return: they differ in type and direction,
\* which are part of the event key, and in the affected lanes, which are not
EventRecords ==
    {[Event(type, T_I10, dir, << >>) EXCEPT !.LanesAffected = lanes] :
        type \in {T_ROADWORK, T_ACCIDENT_TYPE}, dir \in {<< >>, T_East},
        lanes \in {<< >>, T_TwoLanes}}
    \ {[Event(T_ACCIDENT_TYPE, T_I10, T_East, << >>) EXCEPT !.LanesAffected = lanes] :
          lanes \in {<< >>, T_TwoLanes}}

\* the lists of at most MaxRecords records of set S
ListsOf(S) == UNION {[1..k -> S] : k \in 0..MaxRecords}

\* accident_key with the affected lanes taken into the key
AccidentKey_WithLanes(accident) ==
    <<accident.RoadwayName, accident.DirectionOfTravel, accident.Location,
      accident.LastUpdated, accident.LanesAffected>>

\* accident_key of main()
AccidentKey(accident) ==
    <<accident.RoadwayName, accident.DirectionOfTravel, accident.Location,
      accident.LastUpdated>>

\* event_key of main()
EventKey(event) ==
    <<event.RoadwayName, event.EventType, event.DirectionOfTravel, event.Location>>

\* main._format_accident_message(accident)
MainFormatAccidentMessage(accident, now) ==
    LET elapsed_str == ElapsedStr(accident.LastUpdated, now)
    IN  JoinSpace(
            <<<<"A", "C", "C", "I", "D", "E", "N", "T", ":", " ">> \o accident.RoadwayName>>
            \o (IF accident.DirectionOfTravel # << >>
                THEN <<T_OpenParen \o accident.DirectionOfTravel \o T_CloseParen>> ELSE << >>)
            \o (IF accident.LanesAffected # << >>
                   /\ accident.LanesAffected # <<"N", "o", " ", "D", "a", "t", "a">>
                THEN <<<<"L", "a", "n", "e", "s", ":", " ">> \o accident.LanesAffected>> ELSE << >>)
            \o (IF accident.Location # << >> THEN <<T_At \o accident.Location>> ELSE << >>)
            \o (IF elapsed_str # << >> THEN <<<<"[">> \o elapsed_str \o <<"]">>>> ELSE << >>))

\* the message main() builds for an event: type, roadway and direction
MainEventMessage(event) ==
    JoinSpace(
        <<Upper(event.EventType) \o T_ColonSpace \o event.RoadwayName>>
        \o (IF event.DirectionOfTravel # << >>
            THEN <<T_OpenParen \o event.DirectionOfTravel \o T_CloseParen>> ELSE << >>))

\* the locals of a dedup loop of main() before its first iteration
LoopEnter == [seen |-> {}, processed_count |-> 0, sent |-> << >>]

RECURSIVE MainAccidentsLoop(_, _, _)
\* `for accident in accidents` of main(): st = [seen, processed_count, sent]
MainAccidentsLoop(accidents, st, now) ==
    IF accidents = << >> THEN st
    ELSE LET accident == Head(accidents)
             accident_key == AccidentKey(accident)
         IN  IF accident_key \in st.seen
             THEN MainAccidentsLoop(Tail(accidents), st, now)
             ELSE MainAccidentsLoop(Tail(accidents),
                      [seen |-> st.seen \cup {accident_key},
                       processed_count |-> st.processed_count + 1,
                       sent |-> Append(st.sent,
                                   [source |-> <<accident>>,
                                    text |-> MainFormatAccidentMessage(accident, now)])],
                      now)

RECURSIVE MainEventsLoop(_, _)
\* `for event in non_accident_events` of main()
MainEventsLoop(events, st) ==
    IF events = << >> THEN st
    ELSE LET event == Head(events)
             event_key == EventKey(event)
         IN  IF event_key \in st.seen
             THEN MainEventsLoop(Tail(events), st)
             ELSE MainEventsLoop(Tail(events),
                      [seen |-> st.seen \cup {event_key},
                       processed_count |-> st.processed_count + 1,
                       sent |-> Append(st.sent,
                                   [source |-> <<event>>, text |-> MainEventMessage(event)])])

\* What a cycle of main() yields for the list `records` it works on: the
\* messages sent or printed, processed_count, and the number of skipped
\* duplicates it prints (<<n>>; << >> when it prints none: sending enabled,
\* or nothing skipped).
MainOutcome(records, st, none_found, enable_send) ==
    IF records # << >>
    THEN [sent |-> st.sent, processed_count |-> st.processed_count,
          skipped |-> IF ~enable_send /\ Len(records) # st.processed_count
                      THEN <<Len(records) - st.processed_count>> ELSE << >>]
    ELSE [sent |-> <<[source |-> << >>, text |-> none_found]>>, processed_count |-> 0,
          skipped |-> << >>]

\* main(), search type accidents, from the list get_accidents returned
MainAccidents(accidents, enable_send, now) ==
    MainOutcome(accidents, MainAccidentsLoop(accidents, LoopEnter, now),
                T_NoAccidentsFound, enable_send)

\* main(), search type events, from the list get_events returned
MainEvents(events, enable_send) ==
    MainOutcome(NonAccidents(events), MainEventsLoop(NonAccidents(events), LoopEnter),
                T_NoEventsFound, enable_send)

\* _handle_accidents_command from the list get_accidents returned
ListenerAccidents(location, accidents, maxres, now) ==
    LET accidents_to_send == PyPrefix(accidents, maxres)
    IN  IF accidents = << >>
        THEN [sent |-> <<[source |-> << >>, text |-> T_NoAccidentsFor \o location \o T_Quote]>>]
        ELSE [sent |-> [i \in 1..Len(accidents_to_send) |->
                           [source |-> <<accidents_to_send[i]>>,
                            text |-> _format_accident_message(accidents_to_send[i], now)]]]

\* _handle_events_command from the list get_events returned
ListenerEvents(location, events, maxres) ==
    LET non_accident_events == NonAccidents(events)
        events_to_send == PyPrefix(non_accident_events, maxres)
    IN  IF non_accident_events = << >>
        THEN [sent |-> <<[source |-> << >>, text |-> T_NoEventsFor \o location \o T_Quote]>>]
        ELSE [sent |-> [i \in 1..Len(events_to_send) |->
                           [source |-> <<events_to_send[i]>>,
                            text |-> _format_event_message(events_to_send[i])]]]

\* a cycle of main() on the fetched list `records`
MainCycle(kind, records, enable_send) ==
    /\ pc = "idle"
    /\ call' = [fn |-> "main", kind |-> kind, records |-> records, enable_send |-> enable_send]
    /\ result' = IF kind = KW_accidents THEN MainAccidents(records, enable_send, remote.now)
                 ELSE MainEvents(records, enable_send)
    /\ op' = "cycle"
    /\ pc' = "returned"
    /\ UNCHANGED <<chunkerVars, configVars, listenerVars, callbackVars, sendVars, transmissions>>

\* a cycle of a listener's handler on the fetched list `records`
ListenerCycle(kind, records) ==
    /\ pc = "idle"
    /\ call' = [fn |-> "listener", kind |-> kind, records |-> records, enable_send |-> TRUE]
    /\ result' = IF kind = KW_accidents
                 THEN ListenerAccidents(T_phoenix, records, max_results, remote.now)
                 ELSE ListenerEvents(T_phoenix, records, max_results)
    /\ op' = "cycle"
    /\ pc' = "returned"
    /\ UNCHANGED <<chunkerVars, configVars, listenerVars, callbackVars, sendVars, transmissions>>

MainCycles ==
    /\ pc = "idle"
    /\ \E enable_send \in BOOLEAN :
          \/ \E records \in ListsOf(AccidentRecords) : MainCycle(KW_accidents, records, enable_send)
          \/ \E records \in ListsOf(EventRecords) : MainCycle(KW_events, records, enable_send)

ListenerCycles ==
    /\ pc = "idle"
    /\ \/ \E records \in ListsOf(AccidentRecords) : ListenerCycle(KW_accidents, records)
       \/ \E records \in ListsOf(EventRecords) : ListenerCycle(KW_events, records)

CycleInit == Init /\ channel_index = 0 /\ senderInterface = "none"

CycleNext ==
    \/ MainCycles
    \/ ListenerCycles
    \/ Resume

\* the fetch cycles alone
CycleSpec == CycleInit /\ [][CycleNext]_vars

(***************************************************************************)
(* Claims about the fetch cycle                                            *)
(***************************************************************************)
\* a fetch cycle has ended and what it emitted is at hand
CycleReturned == pc = "returned" /\ op = "cycle"

\* the dedup key of record r in a cycle of the given kind: (roadway,
\* direction, location, last-updated) for accidents, (roadway, event type,
\* direction, location) for events
KeyOf(kind, r) ==
    IF kind = KW_accidents
    THEN <<r.RoadwayName, r.DirectionOfTravel, r.Location, r.LastUpdated>>
    ELSE <<r.RoadwayName, r.EventType, r.DirectionOfTravel, r.Location>>

\* the records the cycle worked on: for events, the non-accident ones
CycleInput == IF call.kind = KW_accidents THEN call.records ELSE NonAccidents(call.records)

FirstOfKey(i) ==
    \A h \in 1..(i - 1) : KeyOf(call.kind, CycleInput[h]) # KeyOf(call.kind, CycleInput[i])

RECURSIVE FirstOccurrences(_)
\* the records among the first n of the input that are the first with their
\* key, in source order
FirstOccurrences(n) ==
    IF n = 0 THEN << >>
    ELSE IF FirstOfKey(n) THEN Append(FirstOccurrences(n - 1), CycleInput[n])
    ELSE FirstOccurrences(n - 1)

\* C17: the deduplicator of main() emits exactly the records that are the
\* first occurrence of their key, in source order; a record that differs from
\* an earlier one only outside the key is not emitted; and the number emitted
\* plus the number of skipped duplicates it reports is the number of records.
C17_FirstOccurrencesInOrder ==
    (CycleReturned /\ call.fn = "main" /\ CycleInput # << >>) =>
        /\ [i \in 1..Len(result.sent) |-> result.sent[i].source[1]]
               = FirstOccurrences(Len(CycleInput))
        /\ result.processed_count = Len(result.sent)
        /\ result.skipped # << >> => Len(result.sent) + result.skipped[1] = Len(CycleInput)
        /\ (~call.enable_send /\ Len(result.sent) # Len(CycleInput)) => result.skipped # << >>

\* C17 witness: three accident records, the second differing from the first
\* in the affected lanes only, the third with another key; two were emitted
\* and one was reported as skipped
C17_Witness ==
    /\ CycleReturned
    /\ call.fn = "main"
    /\ call.kind = KW_accidents
    /\ Len(call.records) = 3
    /\ KeyOf(KW_accidents, call.records[1]) = KeyOf(KW_accidents, call.records[2])
    /\ call.records[1] # call.records[2]
    /\ KeyOf(KW_accidents, call.records[3]) # KeyOf(KW_accidents, call.records[1])
    /\ Len(result.sent) = 2
    /\ result.skipped = <<1>>

(***************************************************************************)
(* The command grammar and the normalization applied on their own.         *)
(***************************************************************************)
\* longest text handed to _normalize_interstate when it is explored
\* exhaustively
MaxNormLen == 5

\* the characters of those texts: the two letters of the pattern, the dash,
\* a digit, another word character and a character that is none
NormAlphabet == {"I", "i", "-", "1", "a", " "}

T_I10_and_i17 == <<"I", "1", "0", " ", "a", "n", "d", " ", "i", "-", "1", "7">>
T_Normalized_I10_and_I17 == <<"I", "-", "1", "0", " ", "a", "n", "d", " ", "I", "-", "1", "7">>

\* the texts handed to _normalize_interstate: every text of the bound, and
\* the example of the docstring's kind
NormTexts == UNION {[1..k -> NormAlphabet] : k \in 0..MaxNormLen} \cup {T_I10_and_i17}

T_hello == <<"h", "e", "l", "l", "o">>
T_there == <<"t", "h", "e", "r", "e">>
T_101 == <<"1", "0", "1">>

\* the first words of the texts handed to the grammar: the keywords in lower,
\* upper and mixed case, one with a long s, and words that are no keyword
GrammarWords ==
    Keywords \cup {Upper(KW_events), <<"A", "l", "e", "r", "t", "s">>,
                   <<"e", "v", "e", "n", "t", LongS>>, T_hello, <<"e", "v", "e", "n", "t">>}

\* what follows the first word
GrammarSeparators == {<< >>, <<" ">>, <<"\t">>, <<" ", "\n", " ">>, <<"x">>}

\* the arguments: none, one word, several words, several lines
GrammarArguments ==
    {<< >>, T_101, <<"I", "1", "0">>, T_there, <<"a", " ", " ", "b">>, <<"a", "\n", "b">>}

\* the texts handed to the grammar
GrammarTexts ==
    {lead \o word \o sep \o arg \o trail :
        lead \in {<< >>, <<" ">>}, word \in GrammarWords, sep \in GrammarSeparators,
        arg \in GrammarArguments, trail \in {<< >>, <<" ">>, <<"\n">>}}

\* the grammar applied to a text: the match, group(1).lower(), group(2).strip()
ParseCall(text) ==
    /\ pc = "idle"
    /\ call' = [fn |-> "parse", text |-> text]
    /\ result' = ParseCommand(text)
    /\ op' = "parse"
    /\ pc' = "returned"
    /\ UNCHANGED <<chunkerVars, configVars, listenerVars, callbackVars, sendVars, transmissions>>

\* _normalize_interstate applied to a text, and to its own result
NormalizeCall(text) ==
    /\ pc = "idle"
    /\ call' = [fn |-> "normalize", text |-> text]
    /\ result' = [once |-> _normalize_interstate(text),
                  twice |-> _normalize_interstate(_normalize_interstate(text))]
    /\ op' = "normalize"
    /\ pc' = "returned"
    /\ UNCHANGED <<chunkerVars, configVars, listenerVars, callbackVars, sendVars, transmissions>>

ParseCalls == pc = "idle" /\ \E text \in GrammarTexts : ParseCall(text)

NormalizeCalls == pc = "idle" /\ \E text \in NormTexts : NormalizeCall(text)

GrammarInit == Init /\ channel_index = 0 /\ max_results = 0 /\ senderInterface = "none"

GrammarNext ==
    \/ ParseCalls
    \/ NormalizeCalls
    \/ Resume

\* the grammar and the normalization alone
GrammarSpec == GrammarInit /\ [][GrammarNext]_vars

(***************************************************************************)
(* Claims about the grammar                                                *)
(***************************************************************************)
\* the grammar has been applied and its result is at hand
Parsed == pc = "returned" /\ op = "parse"

\* the text of that application, trimmed
Trimmed == Strip(call.text)

\* The trimmed text is a first word of i characters, whitespace up to
\* position j, and a non-empty argument that begins after j.
Splits ==
    {ij \in (1..Len(Trimmed)) \X (1..Len(Trimmed)) :
        /\ ij[1] < ij[2] /\ ij[2] < Len(Trimmed)
        /\ \A p \in (ij[1] + 1)..ij[2] : Trimmed[p] \in Whitespace
        /\ Trimmed[ij[2] + 1] \notin Whitespace}

\* the splits whose first word is a keyword in some letter case
KeywordSplits == {ij \in Splits : Lower(Take(Trimmed, ij[1])) \in Keywords}

\* the splits whose first word the pattern takes for a keyword (the long s
\* counts as an s) and whose argument holds no line break
PatternSplits ==
    {ij \in Splits :
        /\ [p \in 1..ij[1] |-> FoldChar(Trimmed[p])] \in Keywords
        /\ "\n" \notin Range(Drop(Trimmed, ij[2]))}

\* the result is the lower-cased first word and the argument of split ij
ResultOf(ij) ==
    /\ result.command_type = Lower(Take(Trimmed, ij[1]))
    /\ result.location = Drop(Trimmed, ij[2])

\* C18 as stated: a text parses exactly when, trimmed, it is a keyword in
\* any letter case, whitespace and a non-empty argument; the result is the
\* lower-cased keyword and the trimmed remainder; "accidents 101" gives
\* (accidents, "101"), "hello there" and a bare keyword give no command.
C18_ParsesKeywordAndArgument ==
    Parsed =>
        /\ result.matched <=> KeywordSplits # {}
        /\ result.matched => \E ij \in KeywordSplits : ResultOf(ij)
        /\ call.text = T_accidents_101 =>
               (result.matched /\ result.command_type = KW_accidents /\ result.location = T_101)
        /\ call.text = T_hello_there => ~result.matched
        /\ call.text \in Keywords => ~result.matched

\* C18 amended: as stated, but the argument must hold no line break, and the
\* first word is matched as the pattern matches it, so that the lower-cased
\* first word is a keyword whenever it is written without a long s.
C18_ParsesKeywordAndOneLineArgument ==
    Parsed =>
        /\ result.matched <=> PatternSplits # {}
        /\ result.matched => \E ij \in PatternSplits : ResultOf(ij)
        /\ (result.matched /\ LongS \notin Range(Trimmed)) => result.command_type \in Keywords
        /\ call.text = T_accidents_101 =>
               (result.matched /\ result.command_type = KW_accidents /\ result.location = T_101)
        /\ call.text = T_hello_there => ~result.matched
        /\ call.text \in Keywords => ~result.matched

\* C18 witness: an upper-case keyword with whitespace around it and an
\* argument of two words parsed to the lower-case keyword
C18_Witness ==
    /\ Parsed
    /\ result.matched
    /\ result.command_type = KW_events
    /\ Take(Trimmed, Len(KW_events)) = Upper(KW_events)
    /\ Trimmed # call.text
    /\ result.location = <<"a", " ", " ", "b">>

\* C20: interstate normalization is idempotent: normalizing a normalized
\* text changes nothing.
C20_NormalizeIdempotent ==
    (pc = "returned" /\ op = "normalize") => result.twice = result.once

\* C20 witness: a text in which the normalization put a dash and turned a
\* lower-case i into I
C20_Witness ==
    /\ pc = "returned" /\ op = "normalize"
    /\ Len(result.once) > Len(call.text)
    /\ "i" \in Range(call.text)
    /\ "i" \notin Range(result.once)

(***************************************************************************)
(* Claims about the interstate normalization                               *)
(***************************************************************************)
\* _normalize_interstate has been applied and its result is at hand
Normalized == pc = "returned" /\ op = "normalize"

RECURSIVE DigitRunEnd(_, _)
\* the last position of the run of digits of s that begins at position d
\* (d - 1 when there is no digit at d)
DigitRunEnd(s, d) ==
    IF d > Len(s) THEN d - 1
    ELSE IF s[d] \in {"0", "1", "2", "3", "4", "5", "6", "7", "8", "9"} THEN DigitRunEnd(s, d + 1)
    ELSE d - 1

RECURSIVE RewriteAnywhere(_, _)
\* s from position i on with every substring made of I or i, an optional
\* dash and one or more digits rewritten to I-<digits>, wherever it stands
RewriteAnywhere(s, i) ==
    IF i > Len(s) THEN << >>
    ELSE LET d == IF i < Len(s) /\ s[i + 1] = "-" THEN i + 2 ELSE i + 1
             e == DigitRunEnd(s, d)
         IN  IF s[i] \in {"I", "i"} /\ e >= d
             THEN <<"I", "-">> \o SubSeq(s, d, e) \o RewriteAnywhere(s, e + 1)
             ELSE <<s[i]>> \o RewriteAnywhere(s, i + 1)

RECURSIVE WordEnd(_, _)
\* the last position of the word (letters, digits, underscore) of s that
\* begins at position i
WordEnd(s, i) ==
    IF i < Len(s) /\ s[i + 1] \in WordChars THEN WordEnd(s, i + 1) ELSE i

\* w is one or more digits
AllDigits(w) == w # << >> /\ \A p \in 1..Len(w) : w[p] \in Range(Digits)

RECURSIVE RewriteWords(_, _)
\* s from position i on (the start of a word, or no word character), read
\* word by word: a word made of I or i and digits, and a word I or i followed
\* by a dash and a word of digits, become I-<digits>; all else stays
RewriteWords(s, i) ==
    IF i > Len(s) THEN << >>
    ELSE IF s[i] \notin WordChars THEN <<s[i]>> \o RewriteWords(s, i + 1)
    ELSE LET e == WordEnd(s, i)
             w == SubSeq(s, i, e)
             e2 == IF e + 2 <= Len(s) /\ s[e + 1] = "-" /\ s[e + 2] \in WordChars
                   THEN WordEnd(s, e + 2) ELSE 0
         IN  IF w[1] \in {"I", "i"} /\ AllDigits(Tail(w))
             THEN <<"I", "-">> \o Tail(w) \o RewriteWords(s, e + 1)
             ELSE IF Len(w) = 1 /\ w[1] \in {"I", "i"} /\ e2 > 0 /\ AllDigits(SubSeq(s, e + 2, e2))
             THEN <<"I", "-">> \o SubSeq(s, e + 2, e2) \o RewriteWords(s, e2 + 1)
             ELSE w \o RewriteWords(s, e + 1)

\* C21 as stated: the normalization rewrites every substring made of a letter
\* I or i, an optional dash and one or more digits to I-<digits>, wherever it
\* occurs, also inside a longer word, and changes nothing else;
\* "I10 and i-17" becomes "I-10 and I-17".
C21_RewritesEverySubstring ==
    Normalized =>
        /\ result.once = RewriteAnywhere(call.text, 1)
        /\ call.text = T_I10_and_i17 => result.once = T_Normalized_I10_and_I17

\* C21 amended: the normalization rewrites to I-<digits> every such substring
\* that stands as a word of its own, that is, with no letter, digit or
\* underscore right before the I and none right after the last digit, and
\* changes nothing else; "I10 and i-17" becomes "I-10 and I-17".
C21_RewritesWholeWords ==
    Normalized =>
        /\ result.once = RewriteWords(call.text, 1)
        /\ call.text = T_I10_and_i17 => result.once = T_Normalized_I10_and_I17

\* C21 witness: "I10 and i-17" was normalized to "I-10 and I-17"
C21_Witness ==
    /\ Normalized
    /\ call.text = T_I10_and_i17
    /\ result.once = T_Normalized_I10_and_I17

(***************************************************************************)
(* Claims about the transport connection and the life of the listener      *)
(***************************************************************************)
\* C22: the listener opens exactly one transport connection at startup and
\* the send path and the receive path use that same connection: at no point
\* are two connections open, no open connection is left unreferenced, and
\* once start() has connected, sender and listener hold the same connection.
C22_OneSharedConnection ==
    /\ Cardinality(OpenConnections(opened, closeCalls)) <= 1
    /\ OpenConnections(opened, closeCalls) \subseteq {interface, senderInterface}
    /\ startPc = "loop" => (interface # "none" /\ interface = senderInterface)

\* C23: over any sequence of stop() and close() calls the connection's close
\* operation is invoked at most once on a connection that was opened, and
\* never on one that was not.
C23_ClosedAtMostOnce ==
    \A c \in Connections :
        /\ closeCalls[c] <= 1
        /\ c \notin opened => closeCalls[c] = 0

\* an explicit stop request reached the listener in its wait loop
StopRequested == startPc = "loop" /\ ~running

\* start() has returned, the flag is down and close() was called on the
\* listener's connection
Stopped == startPc = "done" /\ ~running /\ interface # "none" /\ closeCalls[interface] >= 1

\* C24: after an explicit stop request while the listener is in its wait
\* loop, the connection has been released, and the listener eventually is
\* stopped: the loop ends at its next test of the flag and start() returns.
C24_StopLeadsToStopped ==
    /\ [](StopRequested => (interface # "none" /\ closeCalls[interface] >= 1))
    /\ StopRequested ~> Stopped

\* C24 witness: start() has returned after one stop request, close() was
\* called once on the connection
C24_Witness ==
    /\ Stopped
    /\ subscribed
    /\ closeCalls[interface] = 1

\* C25: when making the connection fails in start(), start() returns (no
\* exception leaves it) with the running flag down, no callback subscribed,
\* no connection held and the wait loop not entered; and this stays so.
C25_FailedStartStops ==
    (startPc # "new" /\ interface = "none") =>
        /\ startPc = "done"
        /\ ~running
        /\ ~subscribed
        /\ "c2" \notin opened

\* C25 witness: start() has returned from a failed connection: no connection
\* is held and close() was called on none
C25_Witness ==
    /\ startPc = "done"
    /\ interface = "none"
    /\ ~running
    /\ closeCalls = [c \in Connections |-> 0]

(***************************************************************************)
(* Claims about the data collaborator                                      *)
(***************************************************************************)
\* the service that command type k asks answered with a failure
FetchFailed(k) ==
    IF k = KW_alerts THEN remote.alertsStatus # "ok" ELSE remote.eventsStatus # "ok"

\* C26: the fetch operations of the data collaborator, called as the
\* listener's handlers call them (accidents and events with a location
\* argument, alerts with none), never raise, and return an empty sequence on
\* any transport, authentication or parse failure.
C26_FetchNeverRaises ==
    (/\ Handled
     /\ cb.matched
     /\ cb.command_type \in {KW_accidents, KW_events, KW_alerts}) =>
        /\ ~Fetch(cb.command_type).raised
        /\ FetchFailed(cb.command_type) => Fetch(cb.command_type).value = << >>

(***************************************************************************)
(* The formatter of accident messages and the error reply applied on       *)
(* their own.                                                              *)
(***************************************************************************)
T_NoData == <<"N", "o", " ", "D", "a", "t", "a">>

\* LastUpdated of a record: none, a time, a text that strptime rejects
\* (no time in it, or no zone word after the time), a value that is not a
\* text (a number, a list)
FormatUpdates ==
    {[kind |-> "empty", secs |-> 0], [kind |-> "time", secs |-> 0],
     [kind |-> "unparsable", secs |-> 0], [kind |-> "not_str", secs |-> 0]}

\* the accident records handed to the formatters: every field but the
\* roadway empty or not, the lanes also "No Data"
FormatRecords ==
    {[Event(T_ACCIDENT_TYPE, T_I10, dir, loc) EXCEPT !.LanesAffected = lanes,
                                                     !.LastUpdated = upd] :
        dir \in {<< >>, T_East}, loc \in {<< >>, T_phoenix},
        lanes \in {<< >>, T_TwoLanes, T_NoData}, upd \in FormatUpdates}

\* the current time, in seconds after the time of the records: five
\* minutes, and an hour and five minutes
FormatNows == {300, 3900}

\* the lengths of the exception texts handed to the except clause
ExcLengths == {0, 1, 99, 100, 101, 250}

\* the exception texts: texts of those lengths and the two texts the
\* handlers raise
ExcTexts == {[i \in 1..n |-> "x"] : n \in ExcLengths} \cup {T_TypeErrorAccidents, T_TypeErrorEvents}

\* one of the two formatters applied to an accident record
FormatCall(where, accident, now) ==
    /\ pc = "idle"
    /\ call' = [fn |-> "format", where |-> where, accident |-> accident, now |-> now]
    /\ result' = [text |-> IF where = "listener" THEN _format_accident_message(accident, now)
                           ELSE MainFormatAccidentMessage(accident, now)]
    /\ op' = "format"
    /\ pc' = "returned"
    /\ UNCHANGED <<chunkerVars, configVars, listenerVars, callbackVars, sendVars, transmissions>>

\* the except clause of _process_command applied to an exception raised by
\* the handler of command_type: the reply it builds and the transmissions
\* send_message makes of it on a sender that holds an interface
ErrorReplyCall(command_type, exc) ==
    /\ pc = "idle"
    /\ call' = [fn |-> "error_reply", command_type |-> command_type, exc |-> exc]
    /\ \E c \in {CatchAtDispatch(command_type, Raised(<< >>, exc))} :
          result' = [out |-> c.out, tx |-> SendAll(c.out, channel_index, "c2", 0, {})]
    /\ op' = "error_reply"
    /\ pc' = "returned"
    /\ UNCHANGED <<chunkerVars, configVars, listenerVars, callbackVars, sendVars, transmissions>>

\* the current time of the elapsed-time computations, in seconds after
\* the last-updated time of the record: from more than an hour before it
\* to more than two hours after it
ElapsedNows == (0 - 3700)..7300

\* the elapsed-time computation of the formatters applied to a
\* last-updated time and a current time
ElapsedCall(last_updated, now) ==
    /\ pc = "idle"
    /\ call' = [fn |-> "elapsed", last_updated |-> last_updated, now |-> now]
    /\ result' = [text |-> ElapsedStr(last_updated, now)]
    /\ op' = "elapsed"
    /\ pc' = "returned"
    /\ UNCHANGED <<chunkerVars, configVars, listenerVars, callbackVars, sendVars, transmissions>>

ElapsedCalls ==
    /\ pc = "idle"
    /\ \E now \in ElapsedNows : ElapsedCall([kind |-> "time", secs |-> 0], now)

\* the time stamps of the service: absent, a number of seconds, a number
\* whose year is out of range (ValueError), a number too large for the
\* platform's time functions (OSError), a number out of the range of
\* time_t or an infinity (OverflowError), a value that is not a number
\* (TypeError)
RawTimestamps ==
    {[kind |-> k, secs |-> 0] :
        k \in {"none", "secs", "ValueError", "OSError", "OverflowError", "TypeError"}}

\* the events of the service before conversion: accidents and others
RawEvents ==
    {[EventType |-> type, RoadwayName |-> road, DirectionOfTravel |-> << >>,
      Location |-> << >>, LanesAffected |-> << >>, Reported |-> reported,
      LastUpdated |-> updated] :
        type \in {T_ACCIDENT_TYPE, T_ROADWORK}, road \in {T_I10},
        reported \in {r \in RawTimestamps : r.kind \in {"none", "secs", "TypeError"}},
        updated \in RawTimestamps}

\* _convert_unix_to_arizona_time applied to a time stamp
ConvertCall(unix_timestamp) ==
    /\ pc = "idle"
    /\ call' = [fn |-> "convert", unix_timestamp |-> unix_timestamp]
    /\ result' = _convert_unix_to_arizona_time(unix_timestamp)
    /\ op' = "convert"
    /\ pc' = "returned"
    /\ UNCHANGED <<chunkerVars, configVars, listenerVars, callbackVars, sendVars, transmissions>>

\* get_accidents applied to the events of the service
GetAccidentsCall(events) ==
    /\ pc = "idle"
    /\ call' = [fn |-> "get_accidents", events |-> events]
    /\ result' = [value |-> GetAccidentsOf(events)]
    /\ op' = "get_accidents"
    /\ pc' = "returned"
    /\ UNCHANGED <<chunkerVars, configVars, listenerVars, callbackVars, sendVars, transmissions>>

ConvertCalls ==
    /\ pc = "idle"
    /\ \/ \E unix_timestamp \in RawTimestamps : ConvertCall(unix_timestamp)
       \/ \E first \in RawEvents : GetAccidentsCall(<<first>>)
       \/ \E first \in RawEvents, second \in RawEvents : GetAccidentsCall(<<first, second>>)

FormatCalls ==
    /\ pc = "idle"
    /\ \E where \in {"listener", "main"}, accident \in FormatRecords, now \in FormatNows :
          FormatCall(where, accident, now)

ErrorReplyCalls ==
    /\ pc = "idle"
    /\ \E command_type \in Keywords, exc \in ExcTexts : ErrorReplyCall(command_type, exc)

FormatInit == Init /\ max_results = 0 /\ senderInterface = "none"

FormatNext ==
    \/ FormatCalls
    \/ ConvertCalls
    \/ ElapsedCalls
    \/ ErrorReplyCalls
    \/ Resume

\* the formatters and the error reply alone
FormatSpec == FormatInit /\ [][FormatNext]_vars

(***************************************************************************)
(* Claims about the formatted messages                                     *)
(***************************************************************************)
\* a formatter has been applied and its message is at hand
Formatted == pc = "returned" /\ op = "format"

\* a segment of the message: nothing when its value is empty, else a space,
\* the opening text, the value and the closing text
Segment(opening, value, closing) ==
    IF value = << >> THEN << >> ELSE <<" ">> \o opening \o value \o closing

\* C27: the accident message is "ACCIDENT: <roadway>" followed, in this
\* order, by "(<direction>)", "Lanes: <lanes>", "@ <location>" and
\* "[<elapsed>]", each present only when its value is not empty, joined by
\* single spaces; with the lanes value "No Data" there is no "Lanes:"
\* segment.  The formatter of the listener and that of main() agree.
C27_AccidentMessageFormat ==
    Formatted =>
        LET a == call.accident
        IN  /\ result.text =
                   <<"A", "C", "C", "I", "D", "E", "N", "T", ":", " ">> \o a.RoadwayName
                   \o Segment(<<"(">>, a.DirectionOfTravel, <<")">>)
                   \o (IF a.LanesAffected = T_NoData THEN << >>
                       ELSE Segment(<<"L", "a", "n", "e", "s", ":", " ">>, a.LanesAffected, << >>))
                   \o Segment(<<"@", " ">>, a.Location, << >>)
                   \o Segment(<<"[">>, ElapsedStr(a.LastUpdated, call.now), <<"]">>)
            /\ a.LanesAffected \in {<< >>, T_NoData} =>
                   ~Contains(result.text, <<"L", "a", "n", "e", "s", ":">>)
            /\ ~Contains(result.text, <<" ", " ">>)

\* C27 witness: a record with direction, location and time, and the lanes
\* value "No Data"
C27_Witness ==
    /\ Formatted
    /\ call.accident.LanesAffected = T_NoData
    /\ call.accident.DirectionOfTravel # << >>
    /\ call.accident.Location # << >>
    /\ call.accident.LastUpdated.kind = "time"
    /\ call.where = "listener"
    /\ Contains(result.text, <<"(", "E", "a", "s", "t", ")", " ", "@", " ">>)

\* C29: the error reply built by the except clause of _process_command is
\* at most MAX_MESSAGE_LENGTH characters long for every command type and
\* every exception text, and send_message transmits it as one fragment,
\* unchanged.
C29_ErrorReplyFitsOneFragment ==
    (pc = "returned" /\ op = "error_reply") =>
        /\ Len(result.out) = 1
        /\ Len(result.out[1].text) <= MAX_MESSAGE_LENGTH
        /\ Len(result.tx) = 1
        /\ result.tx[1].text = result.out[1].text

\* C29 witness: the reply to an exception of 250 characters raised by the
\* accidents handler, cut to 100 characters of the exception's text
C29_Witness ==
    /\ pc = "returned" /\ op = "error_reply"
    /\ call.command_type = KW_accidents
    /\ Len(call.exc) = 250
    /\ Len(result.out[1].text) = Len(T_ErrorProcessing) + Len(KW_accidents) + Len(T_Request) + 100

(***************************************************************************)
(* _split_message with a max_length wide enough for the search loop to     *)
(* visit more than one position.                                           *)
(***************************************************************************)
\* the values of max_length: the loop visits two positions for each
WideLengths == {5, 6}

\* the texts chunked with max_length L: one or two characters longer
WideTexts(L) == [1..(L + 1) -> Alphabet] \cup [1..(L + 2) -> Alphabet]

WideSplitCalls ==
    /\ pc = "idle"
    /\ \E L \in WideLengths : \E m \in WideTexts(L) : SplitCall(m, L)

WideChunkNext ==
    \/ WideSplitCalls
    \/ SplitLoop
    \/ Resume

WideChunkSpec == ChunkInit /\ [][WideChunkNext]_vars

(***************************************************************************)
(* Claims about the break points of the chunker                            *)
(***************************************************************************)
\* the preferred break characters: space, comma, close parenthesis, close
\* bracket, "@", dash
PreferredBreaks == {" ", ",", ")", "]", "@", "-"}

\* position p of `remaining` is one the backward search visits: from
\* position max_length down to the one after the middle position
Searched(p) == p <= max_length /\ p > (max_length \div 2) + 1

\* `cut` is where the text is cut: right after the right-most preferred
\* break character among the searched positions, or at max_length when none
\* of them holds one
IsCut(cut) ==
    \/ /\ Searched(cut)
       /\ remaining[cut] \in PreferredBreaks
       /\ \A q \in (cut + 1)..max_length : remaining[q] \notin PreferredBreaks
    \/ /\ cut = max_length
       /\ \A q \in 1..max_length : Searched(q) => remaining[q] \notin PreferredBreaks

\* C30: an iteration of the chunker on a remaining text longer than
\* max_length cuts it right after the right-most preferred break character
\* found from position max_length back toward the middle, and at exactly
\* max_length characters when there is none there: the fragment is the text
\* before the cut (trailing whitespace removed, the marker in front of every
\* fragment but the first) and the text after the cut remains.
C30_CutAfterRightmostBreak ==
    [][(pc = "split" /\ Len(remaining) > max_length) =>
          \E cut \in 1..max_length :
              /\ IsCut(cut)
              /\ messages' = Append(messages,
                                 (IF part_num > 1 THEN Marker ELSE << >>)
                                 \o RStrip(Take(remaining, cut)))
              /\ remaining' = LStrip(Drop(remaining, cut))]_vars

\* C30 witness: with max_length 5 the text had a dash at position 4 and none
\* at position 5, and the first fragment is its first four characters
C30_Witness ==
    /\ pc = "split"
    /\ max_length = 5
    /\ Len(messages) = 1
    /\ message[3] = "a" /\ message[4] = "-" /\ message[5] = "a"
    /\ messages[1] = Take(message, 4)
    /\ remaining = Drop(message, 4)

(***************************************************************************)
(* Claims about the elapsed time of a record                               *)
(***************************************************************************)
\* the computation of the elapsed time fails on this last-updated value
ElapsedFails(last_updated) == last_updated.kind \in {"unparsable", "not_str"}

\* C31: when the computation of the elapsed time fails on the last-updated
\* value of a record (a text that does not parse, a value that is not a
\* text), either formatter still returns the message with every other
\* segment that applies, and with no elapsed segment.
C31_FailedElapsedLeavesTheRest ==
    (Formatted /\ ElapsedFails(call.accident.LastUpdated)) =>
        LET a == call.accident
        IN  /\ result.text =
                   <<"A", "C", "C", "I", "D", "E", "N", "T", ":", " ">> \o a.RoadwayName
                   \o Segment(<<"(">>, a.DirectionOfTravel, <<")">>)
                   \o (IF a.LanesAffected = T_NoData THEN << >>
                       ELSE Segment(<<"L", "a", "n", "e", "s", ":", " ">>, a.LanesAffected, << >>))
                   \o Segment(<<"@", " ">>, a.Location, << >>)
            /\ ~Contains(result.text, <<"[">>)
            /\ ~Contains(result.text, <<"a", "g", "o">>)

\* C31 witness: a record whose last-updated value is not a text, with
\* direction, lanes and location, formatted by the listener
C31_Witness ==
    /\ Formatted
    /\ call.where = "listener"
    /\ call.accident.LastUpdated.kind = "not_str"
    /\ result.text = <<"A", "C", "C", "I", "D", "E", "N", "T", ":", " ">> \o T_I10
                      \o <<" ", "(">> \o T_East \o <<")", " ", "L", "a", "n", "e", "s", ":", " ">>
                      \o T_TwoLanes \o <<" ", "@", " ">> \o T_phoenix

\* the elapsed time of a last-updated time has been computed
ElapsedComputed == pc = "returned" /\ op = "elapsed"

T_m_ago == <<"m", " ", "a", "g", "o">>

\* C32: with e the seconds from the last-updated time to now, the
\* annotation is "<H>h<M>m ago" with H = e div 3600 and
\* M = (e mod 3600) div 60 when e >= 3600, and "<M>m ago" with M = e div 60
\* when 0 <= e < 3600; a last-updated time later than now (e < 0) gives no
\* annotation that claims a positive elapsed time.
C32_ElapsedAnnotation ==
    ElapsedComputed =>
        LET e == call.now - call.last_updated.secs
        IN  /\ e >= 3600 =>
                   result.text = IntToStr(e \div 3600) \o <<"h">>
                                 \o IntToStr((e % 3600) \div 60) \o T_m_ago
            /\ (e >= 0 /\ e < 3600) => result.text = IntToStr(e \div 60) \o T_m_ago
            /\ e < 0 => result.text \in {<< >>, <<"0">> \o T_m_ago}

\* what C32 says of the times that are not later than now
C32_PastTimes ==
    (ElapsedComputed /\ call.now >= call.last_updated.secs) => C32_ElapsedAnnotation

(***************************************************************************)
(* Claims about the conversion of the time stamps                          *)
(***************************************************************************)
\* C33: the conversion of a time stamp never raises: an absent time stamp
\* and every time stamp on which the conversion fails (out of range, not a
\* number) give null; and get_accidents returns one record for every
\* accident among the events, whatever the time stamps of the others.
C33_ConversionNeverRaises ==
    /\ (pc = "returned" /\ op = "convert") =>
          /\ ~result.raised
          /\ call.unix_timestamp.kind # "secs" => result.value = NoTime
    /\ (pc = "returned" /\ op = "get_accidents") =>
          Len(result.value) = Len(Accidents(call.events))

(***************************************************************************)
(* Claims about the replies as incoming texts                              *)
(***************************************************************************)
\* C34: no text the listener hands to the sender in reply to a packet, and
\* no fragment the sender transmits of it, parses as a command when it is
\* received as the text of a packet.
C34_NoReplyIsACommand ==
    Handled =>
        /\ \A i \in DOMAIN outbound : ~ParseCommand(outbound[i].text).matched
        /\ \A i \in DOMAIN transmissions : ~ParseCommand(transmissions[i].text).matched

(***************************************************************************)
(* stop() while a callback is sending                                      *)
(*                                                                         *)
(* The callback runs on the thread of the connection and stop() on the     *)
(* main thread.  Here the callback is taken in steps: the packet is        *)
(* filtered and the command handled up to the first send, and then every   *)
(* sendText of the reply is a step of its own (send_message sleeps two     *)
(* seconds between the fragments), so that stop() can run between two of   *)
(* them.  call.pending holds the attempts the reply consists of,           *)
(* transmissions the attempts made, and result, for each attempt made,     *)
(* whether close() had been called on the sender's connection before it.   *)
(***************************************************************************)
\* _on_message_received up to the first send of the reply
BeginReply(p, e) ==
    /\ pc = "idle"
    /\ subscribed
    /\ OpenConnections(opened, closeCalls) # {}
    /\ \E o \in {CallbackOutcome(p, e, channel_index, max_results, interface, myInfo)} :
          /\ cb' = [admitted |-> o.admitted, echo |-> o.echo, processed |-> o.processed,
                    matched |-> o.matched, command_type |-> o.command_type,
                    location |-> o.location, caught |-> o.caught, fetches |-> o.fetches,
                    logged |-> o.logged, escaped |-> o.escaped]
          /\ outbound' = [i \in 1..Len(o.out) |->
                             [kind |-> o.out[i].kind, text |-> o.out[i].text,
                              channel |-> channel_index]]
          /\ call' = [fn |-> "reply",
                      pending |-> SendAll(o.out, channel_index, senderInterface, 0, {})]
    /\ transmissions' = << >>
    /\ result' = << >>
    /\ packet' = p
    /\ remote' = e
    /\ op' = "receive"
    /\ pc' = "sending"
    /\ UNCHANGED <<chunkerVars, configVars, listenerVars, sendVars>>

\* the next interface.sendText of the reply: it succeeds or raises, and
\* send_message goes on to the next one either way
SendNext ==
    /\ pc = "sending"
    /\ Len(transmissions) < Len(call.pending)
    /\ \E ok \in BOOLEAN :
          transmissions' = Append(transmissions,
              [call.pending[Len(transmissions) + 1] EXCEPT !.ok = ok, !.slept = ok])
    /\ result' = Append(result, closeCalls[senderInterface] > 0)
    /\ UNCHANGED <<pc, op, call, chunkerVars, configVars, listenerVars, callbackVars, sendVars>>

\* the callback returns after the last send
FinishReply ==
    /\ pc = "sending"
    /\ Len(transmissions) = Len(call.pending)
    /\ pc' = "returned"
    /\ UNCHANGED <<op, chunkerVars, configVars, listenerVars, callbackVars, sendVars,
                   transmissions>>
    /\ UNCHANGED callVars

\* the packets of the replies in steps: an alerts command, answered by a
\* summary and one message for each alert shown, and a weather command
BeginReplies ==
    /\ pc = "idle"
    /\ \/ \E e \in AlertEnvs : BeginReply(TextPacket(T_alerts_az, channel_index), e)
       \/ BeginReply(TextPacket(T_weather_x, channel_index), QuietEnv)

InFlightNext ==
    \/ \E info \in {<< >>, <<OurNode>>} : StartConnected(info)
    \/ \E byInterrupt \in BOOLEAN : Stop(byInterrupt)
    \/ BeginReplies
    \/ SendNext
    \/ FinishReply
    \/ Resume

\* the listener with its replies sent in steps
InFlightSpec == Init /\ [][InFlightNext]_vars

\* C35: no transmission is attempted on a connection that has been
\* closed: once stop() has run, the sends that remain of a reply are not
\* made on the closed connection.
C35_NoSendOnClosedConnection ==
    (op = "receive" /\ pc \in {"sending", "returned"}) =>
        \A i \in DOMAIN result : ~result[i]

(***************************************************************************)
(* Claims about the packets delivered after stop()                         *)
(***************************************************************************)
\* C36: a packet that the subscription delivers after stop() has run is
\* not dispatched to a handler and causes no outbound message and no
\* transmission.
C36_NothingProcessedAfterStop ==
    (Handled /\ subscribed /\ ~running) =>
        /\ ~cb.processed
        /\ outbound = << >>
        /\ transmissions = << >>

C38_NoEmptyFragment ==
    LongSplitReturned =>
        \A i \in 1..Len(messages) :
            /\ messages[i] # << >>
            /\ messages[i] # Marker

====
